---- MODULE Spec2Model ----
(***************************************************************************)
(* A model of the FFI marshalling engine of lune-std-ffi: type            *)
(* descriptors, the struct layout mapper, the pointer model, the arena    *)
(* and the scratch arena, the dynamic caller and the callback trampoline. *)
(*                                                                         *)
(* Each component has its own variables and its own specification; a      *)
(* specification leaves the variables of the other components at their    *)
(* idle values.                                                            *)
(***************************************************************************)
EXTENDS Integers, Sequences, FiniteSets, TLC

VARIABLES
    schema,      \* from_schema: the schema table handed in by the host
    def,         \* from_schema: the StructDefinition built from it, or NoDef
    layoutErr,   \* from_schema: whether the call returned an error
    mem,         \* the bytes of the native region the pointers refer to
    wild,        \* whether an access has left the region (undefined behaviour)
    rp,          \* the host's current RawPointer
    tp,          \* the host's current TypedPointer, or Absent
    ptrRet,      \* the last pointer operation and what it returned
    arena,       \* the Arena: id, chunks, total_allocated
    arenaRet,    \* the last Arena call, the arena before it, and its result
    arena_id_counter,  \* the static ARENA_ID_COUNTER
    threads,     \* per thread: where it is in Arena::new, and its arenas
    scratch,     \* the ScratchArena: buffer, offset, high_water_mark
    scratchRet,  \* the last ScratchArena call, used() before it, its result
    overflow_checks,  \* whether the build panics on integer overflow
    callRet,     \* the last native call: its inputs, result and events
    cbs,         \* the FfiCallback bindings created so far, dropped or not
    frees,       \* per native closure allocated, the closure_free calls on it
    cbRet,       \* the last callback operation and its outcome
    buf,         \* the bytes of the host's Buffer, or Absent
    bufRet,      \* the last Buffer call, the call before it, and its result
    view,        \* the host's StructView, or Absent
    viewRet,     \* the last StructView call, memory before it, its result
    lib,         \* the SmartLibrary, or the error of its construction
    libRet       \* the last SmartLibrary operation and what it returned

layoutVars == <<schema, def, layoutErr>>

memVars == <<mem, wild>>

ptrVars == <<rp, tp, ptrRet>>

arenaVars == <<arena, arenaRet, arena_id_counter, threads>>

scratchVars == <<scratch, scratchRet, overflow_checks>>

cbVars == <<cbs, frees, cbRet>>

bufVars == <<buf, bufRet>>

viewVars == <<view, viewRet>>

smartVars == <<lib, libRet>>

vars ==
    <<layoutVars, memVars, ptrVars, arenaVars, scratchVars, callRet, cbVars,
      bufVars, viewVars, smartVars>>

\* What each component leaves alone.
layoutRest ==
    <<memVars, ptrVars, arenaVars, scratchVars, callRet, cbVars,
      bufVars, viewVars, smartVars>>

pointerRest ==
    <<layoutVars, arenaVars, scratchVars, callRet, cbVars,
      bufVars, viewVars, smartVars>>

arenaRest ==
    <<layoutVars, memVars, ptrVars, scratchVars, callRet, cbVars,
      bufVars, viewVars, smartVars>>

scratchRest ==
    <<layoutVars, memVars, ptrVars, arenaVars, callRet, cbVars,
      bufVars, viewVars, smartVars>>

callRest ==
    <<layoutVars, memVars, ptrVars, arenaVars, scratchRet, cbVars, bufVars,
      viewVars, smartVars>>

callbackRest ==
    <<layoutVars, memVars, ptrVars, arenaVars, scratchVars, callRet, bufVars,
      viewVars, smartVars>>

bufferRest ==
    <<layoutVars, memVars, ptrVars, arenaVars, scratchVars, callRet, cbVars,
      viewVars, smartVars>>

viewRest ==
    <<layoutVars, arenaVars, scratchVars, callRet, cbVars, bufVars,
      smartVars>>

(***************************************************************************)
(* Bounds of the model.                                                    *)
(***************************************************************************)
MaxFields == 3
RegionSize == 4
MaxChunks == 3
ScratchCapacity == 4
MaxArgs == 2
MaxCallbacks == 2
BufLen == 8
MaxLookups == 2
MaxThreads == 2
MaxArenas == 2

(***************************************************************************)
(* types.rs: CType, from_str, size, alignment.                             *)
(***************************************************************************)
CType ==
    {"Void", "Bool", "I8", "U8", "I16", "U16", "I32", "U32", "I64", "U64",
     "F32", "F64", "Pointer", "CString"}

\* Option::None of an Option<usize> or Option<CType>.
None == -1

from_str(s) ==
    CASE s = "void" -> "Void"
      [] s = "bool" -> "Bool"
      [] s \in {"i8", "int8", "char"} -> "I8"
      [] s \in {"u8", "uint8", "uchar", "byte"} -> "U8"
      [] s \in {"i16", "int16", "short"} -> "I16"
      [] s \in {"u16", "uint16", "ushort"} -> "U16"
      [] s \in {"i32", "int32", "int"} -> "I32"
      [] s \in {"u32", "uint32", "uint"} -> "U32"
      [] s \in {"i64", "int64", "long", "longlong"} -> "I64"
      [] s \in {"u64", "uint64", "ulong", "ulonglong", "size_t"} -> "U64"
      [] s \in {"f32", "float"} -> "F32"
      [] s \in {"f64", "double"} -> "F64"
      [] s \in {"ptr", "pointer", "void*"} -> "Pointer"
      [] s \in {"string", "cstring", "char*"} -> "CString"
      [] OTHER -> "NoType"

size(t) ==
    CASE t = "Void" -> 0
      [] t \in {"Bool", "I8", "U8"} -> 1
      [] t \in {"I16", "U16"} -> 2
      [] t \in {"I32", "U32", "F32"} -> 4
      [] t \in {"I64", "U64", "F64", "Pointer", "CString"} -> 8

Max(a, b) == IF a >= b THEN a ELSE b

\* alignment without the minimum of 1.
alignment_as_size(t) == size(t)

alignment(t) == Max(size(t), 1)

\* impl IntoLua for CType: the name a tag has as a host value.
into_lua(t) ==
    CASE t = "Void" -> "void"
      [] t = "Bool" -> "bool"
      [] t = "I8" -> "i8"
      [] t = "U8" -> "u8"
      [] t = "I16" -> "i16"
      [] t = "U16" -> "u16"
      [] t = "I32" -> "i32"
      [] t = "U32" -> "u32"
      [] t = "I64" -> "i64"
      [] t = "U64" -> "u64"
      [] t = "F32" -> "f32"
      [] t = "F64" -> "f64"
      [] t = "Pointer" -> "pointer"
      [] t = "CString" -> "string"

\* create_types_table: the <<key, value>> entries of ffi.types that name
\* types.
create_types_table ==
    {<<"void", "void">>, <<"bool", "bool">>, <<"i8", "i8">>, <<"u8", "u8">>,
     <<"i16", "i16">>, <<"u16", "u16">>, <<"i32", "i32">>, <<"u32", "u32">>,
     <<"i64", "i64">>, <<"u64", "u64">>, <<"f32", "f32">>, <<"f64", "f64">>,
     <<"pointer", "pointer">>, <<"string", "string">>,
     <<"int", "i32">>, <<"uint", "u32">>, <<"long", "i64">>,
     <<"ulong", "u64">>, <<"float", "f32">>, <<"double", "f64">>,
     <<"char", "i8">>, <<"uchar", "u8">>, <<"short", "i16">>,
     <<"ushort", "u16">>, <<"size_t", "u64">>, <<"ptr", "pointer">>}

(***************************************************************************)
(* Machine values.  A value of n bytes is a sequence of n bytes in memory *)
(* order (little-endian); its bits are a sequence of 0/1, lowest first.   *)
(* Host integers (LuaValue::Integer, i64) and host numbers                *)
(* (LuaValue::Number, f64) are kept as their 8 bytes, so that every cast  *)
(* of the code (v as i8, i64::from(v), v as f32, v as u64, ...) is        *)
(* computed on the representation.                                         *)
(***************************************************************************)
RECURSIVE Pow2(_)
Pow2(n) == IF n = 0 THEN 1 ELSE 2 * Pow2(n - 1)

Zeros(n) == [i \in 1..n |-> 0]

BitsOfBytes(bs) ==
    [i \in 1..(8 * Len(bs)) |->
        (bs[((i - 1) \div 8) + 1] \div Pow2((i - 1) % 8)) % 2]

BytesOfBits(bits) ==
    [j \in 1..(Len(bits) \div 8) |->
        bits[8 * j - 7] + 2 * bits[8 * j - 6] + 4 * bits[8 * j - 5]
        + 8 * bits[8 * j - 4] + 16 * bits[8 * j - 3] + 32 * bits[8 * j - 2]
        + 64 * bits[8 * j - 1] + 128 * bits[8 * j]]

\* The number a short bit sequence stands for (exponent fields, addresses).
RECURSIVE BitsToNat(_)
BitsToNat(bits) ==
    IF bits = <<>> THEN 0 ELSE bits[1] + 2 * BitsToNat(Tail(bits))

NatToBits(n, w) == [i \in 1..w |-> (n \div Pow2(i - 1)) % 2]

\* Without its leading (high) zero bits.
RECURSIVE Norm(_)
Norm(bits) ==
    IF bits = <<>> \/ bits[Len(bits)] = 1
    THEN bits
    ELSE Norm(SubSeq(bits, 1, Len(bits) - 1))

\* Padded with high zero bits, or cut, to w bits.
Fit(bits, w) ==
    IF Len(bits) >= w THEN SubSeq(bits, 1, w) ELSE bits \o Zeros(w - Len(bits))

\* bits + 1, one bit longer when the carry runs out of the top.
RECURSIVE Inc(_)
Inc(bits) ==
    IF bits = <<>> THEN <<1>>
    ELSE IF bits[1] = 0 THEN <<1>> \o Tail(bits)
    ELSE <<0>> \o Inc(Tail(bits))

\* Arithmetic on machine words kept as bytes: a + b with the carry out of
\* the top byte appended, the wrapped sum and whether it overflowed, the
\* bitwise and, the bitwise complement, the unsigned comparison, and the
\* number a word with zero high bytes stands for.
RECURSIVE AddCarry(_, _, _)
AddCarry(a, b, c) ==
    IF a = <<>> THEN <<c>>
    ELSE <<(a[1] + b[1] + c) % 256>>
         \o AddCarry(Tail(a), Tail(b), (a[1] + b[1] + c) \div 256)

AddOv(a, b) ==
    [v |-> SubSeq(AddCarry(a, b, 0), 1, Len(a)),
     ov |-> AddCarry(a, b, 0)[Len(a) + 1] = 1]

WrappingAdd(a, b) == AddOv(a, b).v

RECURSIVE AndNat(_, _)
AndNat(x, y) ==
    IF x = 0 \/ y = 0 THEN 0
    ELSE (x % 2) * (y % 2) + 2 * AndNat(x \div 2, y \div 2)

BitAnd(a, b) == [i \in 1..Len(a) |-> AndNat(a[i], b[i])]

BitNot(a) == [i \in 1..Len(a) |-> 255 - a[i]]

Gt(a, b) ==
    \E i \in 1..Len(a) :
        /\ a[i] > b[i]
        /\ \A j \in (i + 1)..Len(a) : a[j] = b[j]

\* The n-byte two's complement representation of a small integer.
RECURSIVE NatBytes(_, _)
NatBytes(x, n) ==
    IF n = 0 THEN <<>> ELSE <<x % 256>> \o NatBytes(x \div 256, n - 1)

IntBytes(i, n) ==
    IF i >= 0 THEN NatBytes(i, n) ELSE BitNot(NatBytes((0 - i) - 1, n))

WordOne == IntBytes(1, 8)

WordMax == IntBytes(0 - 1, 8)

\* Two's complement negation of a word.
NegWord(b) == WrappingAdd(BitNot(b), IntBytes(1, Len(b)))

RECURSIVE BytesToNat(_)
BytesToNat(bs) ==
    IF bs = <<>> THEN 0 ELSE bs[1] + 256 * BytesToNat(Tail(bs))

\* bits without its d lowest bits, rounded to nearest, ties to even.
RoundDrop(bits, d) ==
    LET n == Len(bits)
        kept == IF d >= n THEN <<>> ELSE SubSeq(bits, d + 1, n)
        half == IF d <= n THEN bits[d] ELSE 0
        sticky == \E i \in 1..(Max(d, 1) - 1) : i <= n /\ bits[i] = 1
        odd == kept # <<>> /\ kept[1] = 1
    IN  IF half = 1 /\ (sticky \/ odd) THEN Inc(kept) ELSE kept

\* Integer casts: v as iN / v as uN keeps the low bytes; i64::from(iN)
\* sign-extends and i64::from(uN) zero-extends.
Truncate(bytes, n) == SubSeq(bytes, 1, n)

SignExtend(bytes, n) ==
    bytes \o [i \in 1..(n - Len(bytes)) |->
                 IF bytes[Len(bytes)] >= 128 THEN 255 ELSE 0]

ZeroExtend(bytes, n) == bytes \o Zeros(n - Len(bytes))

(***************************************************************************)
(* IEEE-754 binary32 and binary64: what the float casts of the code do.    *)
(***************************************************************************)
F32Format == [fb |-> 23, eb |-> 8, bias |-> 127]
F64Format == [fb |-> 52, eb |-> 11, bias |-> 1023]

\* The value of a float: class, sign, magnitude bits and scale, the value
\* being magnitude * 2^scale.
Decode(fmt, bytes) ==
    LET bits == BitsOfBytes(bytes)
        frac == SubSeq(bits, 1, fmt.fb)
        e == BitsToNat(SubSeq(bits, fmt.fb + 1, fmt.fb + fmt.eb))
        s == bits[fmt.fb + fmt.eb + 1]
    IN  IF e = Pow2(fmt.eb) - 1
        THEN [cls |-> IF Norm(frac) = <<>> THEN "inf" ELSE "nan",
              sign |-> s, mag |-> <<>>, scale |-> 0]
        ELSE IF e = 0
        THEN [cls |-> IF Norm(frac) = <<>> THEN "zero" ELSE "fin",
              sign |-> s, mag |-> Norm(frac), scale |-> 1 - fmt.bias - fmt.fb]
        ELSE [cls |-> "fin", sign |-> s, mag |-> frac \o <<1>>,
              scale |-> e - fmt.bias - fmt.fb]

Pack(fmt, s, e, frac) ==
    BytesOfBits(Fit(frac, fmt.fb) \o NatToBits(e, fmt.eb) \o <<s>>)

\* The float nearest to mag * 2^scale (ties to even), mag without leading
\* zeros: subnormal below the normal range, infinite above it.
Encode(fmt, s, mag, scale) ==
    IF mag = <<>> THEN Pack(fmt, s, 0, <<>>)
    ELSE
    LET E == scale + Len(mag) - 1
        q == Max(E, 1 - fmt.bias) - fmt.fb
        d == q - scale
        r0 == Norm(IF d <= 0 THEN Zeros(0 - d) \o mag ELSE RoundDrop(mag, d))
        carried == Len(r0) = fmt.fb + 2
        r == IF carried THEN Tail(r0) ELSE r0
        q1 == IF carried THEN q + 1 ELSE q
        e == IF Len(r) = fmt.fb + 1 THEN q1 + fmt.fb + fmt.bias ELSE 0
    IN  IF e >= Pow2(fmt.eb) - 1
        THEN Pack(fmt, s, Pow2(fmt.eb) - 1, <<>>)
        ELSE Pack(fmt, s, e, Fit(r, fmt.fb))

Recode(from, to, bytes) ==
    LET v == Decode(from, bytes)
    IN  CASE v.cls = "fin" -> Encode(to, v.sign, v.mag, v.scale)
          [] v.cls = "zero" -> Pack(to, v.sign, 0, <<>>)
          [] v.cls = "inf" -> Pack(to, v.sign, Pow2(to.eb) - 1, <<>>)
          [] v.cls = "nan" -> Pack(to, v.sign, Pow2(to.eb) - 1,
                                   Zeros(to.fb - 1) \o <<1>>)

\* v as f32 (f64 to f32) and f64::from(v) (f32 to f64).
F64ToF32(b8) == Recode(F64Format, F32Format, b8)

F32ToF64(b4) == Recode(F32Format, F64Format, b4)

\* v as f64 of a u64 and of an i64.
U64ToF64(b8) == Encode(F64Format, 0, Norm(BitsOfBytes(b8)), 0)

I64ToF64(b8) ==
    IF b8[8] >= 128
    THEN Encode(F64Format, 1, Norm(BitsOfBytes(NegWord(b8))), 0)
    ELSE Encode(F64Format, 0, Norm(BitsOfBytes(b8)), 0)

\* The integer part of a finite float, as magnitude bits (truncation).
IntPart(v) ==
    IF v.scale >= 0 THEN Zeros(v.scale) \o v.mag
    ELSE IF 0 - v.scale >= Len(v.mag) THEN <<>>
    ELSE SubSeq(v.mag, 1 - v.scale, Len(v.mag))

\* v as u64 of an f64: truncates, saturates, NaN gives 0.
F64ToU64(b8) ==
    LET v == Decode(F64Format, b8)
    IN  CASE v.cls \in {"zero", "nan"} -> Zeros(8)
          [] v.cls = "inf" ->
                IF v.sign = 1 THEN Zeros(8) ELSE WordMax
          [] v.cls = "fin" ->
                IF v.sign = 1 THEN Zeros(8)
                ELSE IF Len(IntPart(v)) > 64 THEN WordMax
                ELSE BytesOfBits(Fit(IntPart(v), 64))

\* A LuaResult: Ok(x), or Err(msg) for Err(LuaError::external(msg)) and for
\* the conversion error the ? operator passes on.
Ok(x) == [ok |-> TRUE, v |-> x]

Err(msg) == [ok |-> FALSE, msg |-> msg]

\* v as i64 of an f64 as the host binding's checked conversion does it
\* (truncation toward zero; no result when NaN, infinite or out of range).
F64ToI64Checked(b8) ==
    LET v == Decode(F64Format, b8)
        m == IF v.cls = "fin" THEN IntPart(v) ELSE <<>>
    IN  CASE v.cls = "zero" -> [ok |-> TRUE, v |-> Zeros(8)]
          [] v.cls \in {"nan", "inf"} -> Err("conversion")
          [] v.cls = "fin" ->
                IF Len(m) <= 63
                THEN [ok |-> TRUE,
                      v |-> IF v.sign = 1
                            THEN NegWord(BytesOfBits(Fit(m, 64)))
                            ELSE BytesOfBits(Fit(m, 64))]
                ELSE IF v.sign = 1 /\ m = Zeros(63) \o <<1>>
                THEN [ok |-> TRUE, v |-> BytesOfBits(m)]
                ELSE Err("conversion")

(***************************************************************************)
(* Host values (LuaValue): Nil, Boolean, Integer (i64), Number (f64),      *)
(* String, LightUserData (an address, 8 bytes).  The payload v is always   *)
(* a byte sequence: one byte 0 or 1 for a boolean, the bytes of the string *)
(* for a string.                                                           *)
(***************************************************************************)
Nil == [k |-> "Nil", v |-> <<>>]

Boolean(b) == [k |-> "Boolean", v |-> IF b THEN <<1>> ELSE <<0>>]

Integer(b8) == [k |-> "Integer", v |-> b8]

Number(b8) == [k |-> "Number", v |-> b8]

String(s) == [k |-> "String", v |-> s]

LightUserData(p8) == [k |-> "LightUserData", v |-> p8]

NullPtr == Zeros(8)

\* FromLua::from_lua for bool, i64, f64 and LuaLightUserData.
FromLuaBool(value) ==
    CASE value.k = "Nil" -> Ok(FALSE)
      [] value.k = "Boolean" -> Ok(value.v = <<1>>)
      [] OTHER -> Ok(TRUE)

FromLuaI64(value) ==
    CASE value.k = "Integer" -> Ok(value.v)
      [] value.k = "Number" -> F64ToI64Checked(value.v)
      [] OTHER -> Err("conversion")

FromLuaF64(value) ==
    CASE value.k = "Integer" -> Ok(I64ToF64(value.v))
      [] value.k = "Number" -> Ok(value.v)
      [] OTHER -> Err("conversion")

FromLuaLightUserData(value) ==
    IF value.k = "LightUserData" THEN Ok(value.v) ELSE Err("conversion")

(***************************************************************************)
(* pointer.rs: read_value_at and write_value_at, the conversions between   *)
(* host values and native bytes.  The pointer helpers know two more tags   *)
(* than types.rs lists, ISize and USize, both one machine word wide.       *)
(***************************************************************************)
width(t) == IF t \in {"ISize", "USize"} THEN 8 ELSE size(t)

\* Native memory outside the modelled regions: the C strings some addresses
\* point to.  CStr::from_ptr of any other address is undefined behaviour
\* and may produce any string.
CStringAt == (IntBytes(16, 8) :> <<104, 105>>) @@ (IntBytes(32, 8) :> <<>>)

\* The bytes write_value_at stores at ptr for (ctype, value), or the
\* conversion error.
write_value_at(ctype, value) ==
    LET b == FromLuaBool(value)
        i == FromLuaI64(value)
        f == FromLuaF64(value)
        p == FromLuaLightUserData(value)
    IN  CASE ctype = "Void" -> Ok(<<>>)
          [] ctype = "Bool" -> Ok(<<IF b.v THEN 1 ELSE 0>>)
          [] ctype \in {"I8", "U8", "I16", "U16", "I32", "U32", "I64",
                        "ISize", "USize"} ->
                IF i.ok THEN Ok(Truncate(i.v, width(ctype))) ELSE i
          [] ctype = "U64" -> IF f.ok THEN Ok(F64ToU64(f.v)) ELSE f
          [] ctype = "F32" -> IF f.ok THEN Ok(F64ToF32(f.v)) ELSE f
          [] ctype = "F64" -> f
          [] ctype \in {"Pointer", "CString"} -> p

\* The host values read_value_at can return for the bytes found at ptr.
\* A bool read of a byte other than 0 and 1 is undefined behaviour.
read_value_at(bytes, ctype) ==
    CASE ctype = "Void" -> {Nil}
      [] ctype = "Bool" ->
            IF bytes[1] \in {0, 1} THEN {Boolean(bytes[1] = 1)}
            ELSE {Boolean(TRUE), Boolean(FALSE)}
      [] ctype \in {"I8", "I16", "I32"} -> {Integer(SignExtend(bytes, 8))}
      [] ctype \in {"U8", "U16", "U32"} -> {Integer(ZeroExtend(bytes, 8))}
      [] ctype \in {"I64", "ISize", "USize"} -> {Integer(bytes)}
      [] ctype = "U64" -> {Number(U64ToF64(bytes))}
      [] ctype = "F32" -> {Number(F32ToF64(bytes))}
      [] ctype = "F64" -> {Number(bytes)}
      [] ctype = "Pointer" ->
            IF bytes = NullPtr THEN {Nil} ELSE {LightUserData(bytes)}
      [] ctype = "CString" ->
            IF bytes = NullPtr THEN {Nil}
            ELSE IF bytes \in DOMAIN CStringAt
            THEN {String(CStringAt[bytes])}
            ELSE {String(x) : x \in {<<>>, <<104, 105>>, <<63>>}}

\* m with the bytes bs stored from (0-based) offset off on.
Splice(m, off, bs) ==
    [i \in 1..Len(m) |->
        IF off < i /\ i <= off + Len(bs) THEN bs[i - off] ELSE m[i]]

Slice(m, off, n) == SubSeq(m, off + 1, off + n)

(***************************************************************************)
(* types.rs: Buffer::read and Buffer::write (the 14 tags of types.rs).     *)
(***************************************************************************)
\* An access through a pointer that left its region or buffer: undefined
\* behaviour, which the caller sees as a success.
WildAccess == [ok |-> TRUE, wild |-> TRUE]

\* Buffer::read and Buffer::write.  offset is a machine word and
\* offset + ctype.size() is a usize addition: when it overflows it panics in
\* a build with overflow checks and wraps in a build without them, and
\* after a wrapped sum passed the bounds check ptr.add(offset) is outside
\* the buffer.
BufferRead(b, offset8, ctype, checks) ==
    LET Checked(sum) ==
            IF checks /\ sum.ov
            THEN {[ok |-> FALSE, msg |-> "panic", panic |-> TRUE]}
            ELSE IF Gt(sum.v, IntBytes(Len(b), 8))
            THEN {Err("Buffer read out of bounds")}
            ELSE IF sum.ov
            THEN {WildAccess}
            ELSE {Ok(x) : x \in read_value_at(
                                    Slice(b, BytesToNat(offset8), size(ctype)),
                                    ctype)}
    IN  Checked(AddOv(offset8, IntBytes(size(ctype), 8)))

BufferWrite(b, offset8, ctype, value, checks) ==
    LET Checked(sum) ==
            IF checks /\ sum.ov
            THEN [ok |-> FALSE, msg |-> "panic", panic |-> TRUE]
            ELSE IF Gt(sum.v, IntBytes(Len(b), 8))
            THEN Err("Buffer write out of bounds")
            ELSE LET Stored(c) ==
                         IF ~c.ok THEN c
                         ELSE IF sum.ov THEN [ok |-> TRUE, v |-> b,
                                              wild |-> TRUE]
                         ELSE Ok(Splice(b, BytesToNat(offset8), c.v))
                 IN  Stored(write_value_at(ctype, value))
    IN  Checked(AddOv(offset8, IntBytes(size(ctype), 8)))

(***************************************************************************)
(* pointer.rs: RawPointer and TypedPointer.  Addresses are numbers, 0 is   *)
(* the null address, and the region the pointers were made for starts at   *)
(* RegionBase.  An access that leaves the region is undefined behaviour.   *)
(***************************************************************************)
RegionBase == 8

\* A variable that holds no object yet.
Absent == [kind |-> "Absent"]

managed(addr, arena_id, sz) ==
    [addr |-> addr, arena_id |-> arena_id, size_hint |-> sz]

saturating_sub(a, b) == IF a >= b THEN a - b ELSE 0

offset_bytes(p, offset) ==
    [addr |-> p.addr + offset,
     arena_id |-> p.arena_id,
     size_hint |-> IF p.size_hint > 0 /\ offset >= 0
                   THEN saturating_sub(p.size_hint, offset)
                   ELSE 0]

TypedPointerNew(raw, ctype) ==
    LET stride == width(ctype)
    IN  [addr |-> raw.addr,
         ctype |-> ctype,
         stride |-> stride,
         arena_id |-> raw.arena_id,
         element_count |-> IF raw.size_hint > 0 /\ stride > 0
                           THEN raw.size_hint \div stride
                           ELSE 0]

offset_elements(p, count) ==
    LET byte_offset == count * p.stride
    IN  [addr |-> p.addr + byte_offset,
         ctype |-> p.ctype,
         stride |-> p.stride,
         arena_id |-> p.arena_id,
         element_count |-> IF p.element_count > 0 /\ count >= 0
                           THEN saturating_sub(p.element_count, count)
                           ELSE 0]

toRaw(p) ==
    [addr |-> p.addr,
     arena_id |-> p.arena_id,
     size_hint |-> p.element_count * p.stride]

\* The access read_value_at / write_value_at makes at address a of the
\* region m: what it returns, the region after it, and whether it left the
\* region.
InRegion(m, a, n) == n = 0 \/ (a >= RegionBase /\ a + n <= RegionBase + Len(m))

MemRead(m, a, ctype) ==
    IF InRegion(m, a, width(ctype))
    THEN {Ok(x) : x \in read_value_at(Slice(m, a - RegionBase, width(ctype)),
                                      ctype)}
    ELSE {WildAccess}

MemWrite(m, a, ctype, value) ==
    LET c == write_value_at(ctype, value)
    IN  IF ~c.ok
        THEN [ret |-> c, mem |-> m, wild |-> FALSE]
        ELSE IF InRegion(m, a, width(ctype))
        THEN [ret |-> Ok(Nil), mem |-> Splice(m, a - RegionBase, c.v),
              wild |-> FALSE]
        ELSE [ret |-> WildAccess, mem |-> m, wild |-> TRUE]

\* RawPointer::read: the results the read at p + offset can have.
read(p, m, offset, ctype) ==
    IF p.addr = 0
    THEN {Err("Cannot read from null pointer")}
    ELSE IF p.size_hint > 0 /\ offset + size(ctype) > p.size_hint
    THEN {Err("Read out of bounds")}
    ELSE MemRead(m, p.addr + offset, ctype)

\* RawPointer::write refusing the last in-bounds offset (>= for >).
write_exclusive(p, m, offset, ctype, value) ==
    IF p.addr = 0
    THEN [ret |-> Err("Cannot write to null pointer"), mem |-> m,
          wild |-> FALSE]
    ELSE IF p.size_hint > 0 /\ offset + size(ctype) >= p.size_hint
    THEN [ret |-> Err("Write out of bounds"), mem |-> m, wild |-> FALSE]
    ELSE MemWrite(m, p.addr + offset, ctype, value)

\* RawPointer::write: the result, the memory after the call, and whether
\* the access left the region.
write(p, m, offset, ctype, value) ==
    IF p.addr = 0
    THEN [ret |-> Err("Cannot write to null pointer"), mem |-> m,
          wild |-> FALSE]
    ELSE IF p.size_hint > 0 /\ offset + size(ctype) > p.size_hint
    THEN [ret |-> Err("Write out of bounds"), mem |-> m, wild |-> FALSE]
    ELSE MemWrite(m, p.addr + offset, ctype, value)

\* read_at with the bounds check off by one (index > element_count).
read_at_inclusive(p, m, index) ==
    IF p.addr = 0
    THEN {Err("Cannot read from null pointer")}
    ELSE IF p.element_count > 0 /\ index > p.element_count
    THEN {Err("Index out of bounds")}
    ELSE MemRead(m, p.addr + index * p.stride, p.ctype)

read_at(p, m, index) ==
    IF p.addr = 0
    THEN {Err("Cannot read from null pointer")}
    ELSE IF p.element_count > 0 /\ index >= p.element_count
    THEN {Err("Index out of bounds")}
    ELSE MemRead(m, p.addr + index * p.stride, p.ctype)

write_at(p, m, index, value) ==
    IF p.addr = 0
    THEN [ret |-> Err("Cannot write to null pointer"), mem |-> m,
          wild |-> FALSE]
    ELSE IF p.element_count > 0 /\ index >= p.element_count
    THEN [ret |-> Err("Index out of bounds"), mem |-> m, wild |-> FALSE]
    ELSE MemWrite(m, p.addr + index * p.stride, p.ctype, value)

(***************************************************************************)
(* arena.rs: Arena.  A chunk is the pointer the allocator returned and its *)
(* layout.  The allocator is outside the program: it may return null, and  *)
(* the address it returns is taken to be the next free aligned address.    *)
(***************************************************************************)
\* next_arena_id handing out the counter's value without advancing it.
next_arena_id_stale(counter) == [id |-> counter, counter |-> counter]

\* next_arena_id: ARENA_ID_COUNTER.fetch_add(1, SeqCst), one atomic step:
\* the id returned and the counter after it.
next_arena_id(counter) == [id |-> counter, counter |-> counter + 1]

ArenaNew(id) == [id |-> id, chunks |-> <<>>, total_allocated |-> 0]

RECURSIVE IsPowerOfTwo(_)
IsPowerOfTwo(n) == n = 1 \/ (n > 1 /\ n % 2 = 0 /\ IsPowerOfTwo(n \div 2))

\* Layout::from_size_align(size, align): the sizes of the model are far
\* below isize::MAX, so only the alignment can be refused.
LayoutOk(sz, align) == IsPowerOfTwo(align)

AllocAddr(a, align) ==
    LET free == IF a.chunks = <<>> THEN RegionBase
                ELSE a.chunks[Len(a.chunks)].ptr + a.chunks[Len(a.chunks)].size
    IN  free + ((align - (free % align)) % align)

\* alloc_aligned that counts the bytes before it asks the allocator.
alloc_aligned_eager(a, sz, align, null) ==
    IF sz = 0
    THEN [ret |-> Err("Cannot allocate 0 bytes"), arena |-> a]
    ELSE IF ~LayoutOk(sz, Max(align, 1))
    THEN [ret |-> Err("Invalid layout"), arena |-> a]
    ELSE IF null
    THEN [ret |-> Err("Allocation failed: out of memory"),
          arena |-> [a EXCEPT !.total_allocated = @ + sz]]
    ELSE LET ptr == AllocAddr(a, Max(align, 1))
         IN  [ret |-> Ok(managed(ptr, a.id, sz)),
              arena |-> [a EXCEPT
                  !.chunks = Append(@, [ptr |-> ptr, size |-> sz,
                                        align |-> Max(align, 1)]),
                  !.total_allocated = @ + sz]]

alloc_aligned(a, sz, align, null) ==
    IF sz = 0
    THEN [ret |-> Err("Cannot allocate 0 bytes"), arena |-> a]
    ELSE IF ~LayoutOk(sz, Max(align, 1))
    THEN [ret |-> Err("Invalid layout"), arena |-> a]
    ELSE IF null
    THEN [ret |-> Err("Allocation failed: out of memory"), arena |-> a]
    ELSE LET ptr == AllocAddr(a, Max(align, 1))
         IN  [ret |-> Ok(managed(ptr, a.id, sz)),
              arena |-> [a EXCEPT
                  !.chunks = Append(@, [ptr |-> ptr, size |-> sz,
                                        align |-> Max(align, 1)]),
                  !.total_allocated = @ + sz]]

alloc(a, sz, null) == alloc_aligned(a, sz, 8, null)

alloc_type(a, ctype, null) ==
    alloc_aligned(a, size(ctype), alignment(ctype), null)

alloc_array(a, ctype, count, null) ==
    IF count = 0
    THEN [ret |-> Err("Cannot allocate 0 elements"), arena |-> a]
    ELSE alloc_aligned(a, size(ctype) * count, alignment(ctype), null)

total_allocated(a) == a.total_allocated

allocation_count(a) == Len(a.chunks)

\* reset that forgets to clear the byte total.
reset_chunks_only(a) == [a EXCEPT !.chunks = <<>>]

reset(a) == [a EXCEPT !.chunks = <<>>, !.total_allocated = 0]

(***************************************************************************)
(* scratch_arena.rs: ScratchArena.  size and align are machine words       *)
(* (usize, 8 bytes) and the arithmetic of alloc is done in 64 bits: an     *)
(* overflowing addition wraps in a build without overflow checks and       *)
(* panics in a build with them.  offset and high_water_mark never exceed   *)
(* buffer.len() and are kept as numbers.                                   *)
(***************************************************************************)
ScratchNew(capacity) ==
    [buffer |-> Zeros(capacity), offset |-> 0, high_water_mark |-> 0]

NoneRet == [k |-> "None"]

Some(x) == [k |-> "Some", v |-> x]

Panic == [k |-> "panic"]

\* alloc(size, align): the result (Some(offset of the region in the buffer,
\* as a machine word), None, or a panic) and the arena after the call.
scratch_alloc(sa, size8, align8, checks) ==
    LET Bump(sum, aligned_offset, new_offset) ==
            IF checks /\ (sum.ov \/ new_offset.ov)
            THEN [ret |-> Panic, arena |-> sa]
            ELSE IF Gt(new_offset.v, IntBytes(Len(sa.buffer), 8))
            THEN [ret |-> NoneRet, arena |-> sa]
            ELSE [ret |-> Some(aligned_offset),
                  arena |-> [sa EXCEPT
                      !.offset = BytesToNat(new_offset.v),
                      !.high_water_mark = Max(@, BytesToNat(new_offset.v))]]
        Place(sum, aligned_offset) ==
            Bump(sum, aligned_offset, AddOv(aligned_offset, size8))
        Align(align, sum) ==
            Place(sum, BitAnd(WrappingAdd(sum.v, WordMax),
                              BitNot(WrappingAdd(align, WordMax))))
        Sum(align) == Align(align, AddOv(IntBytes(sa.offset, 8), align))
    IN  Sum(IF align8 = Zeros(8) THEN WordOne ELSE align8)

\* alloc_cstring without the terminating zero: alloc(len, 1) and the bytes.
alloc_cstring_unterminated(sa, bytes, checks) ==
    LET Copied(r) ==
            IF r.ret.k # "Some" THEN r
            ELSE [ret |-> r.ret,
                  arena |-> [r.arena EXCEPT
                      !.buffer = Splice(@, BytesToNat(r.ret.v), bytes)]]
    IN  Copied(scratch_alloc(sa, IntBytes(Len(bytes), 8), WordOne, checks))

\* alloc_cstring(bytes): alloc(len + 1, 1), then the bytes and the
\* terminating zero are copied to the region.
alloc_cstring(sa, bytes, checks) ==
    LET Copied(r) ==
            IF r.ret.k # "Some" THEN r
            ELSE [ret |-> r.ret,
                  arena |-> [r.arena EXCEPT
                      !.buffer =
                          Splice(@, BytesToNat(r.ret.v), bytes \o <<0>>)]]
    IN  Copied(scratch_alloc(sa, IntBytes(Len(bytes) + 1, 8), WordOne,
                             checks))

\* reset clearing the high water mark instead of the offset.
scratch_reset_mark(sa) == [sa EXCEPT !.high_water_mark = 0]

scratch_reset(sa) == [sa EXCEPT !.offset = 0]

used(sa) == sa.offset

capacity(sa) == Len(sa.buffer)

(***************************************************************************)
(* caller.rs and smart_library.rs: the dynamic call.                       *)
(*                                                                         *)
(* A marshalled argument is the bytes handed to the native function: the  *)
(* scalar, the address, or (for the owned CString of caller.rs) the bytes *)
(* of the string.  The thread's scratch buffer starts at ScratchBase.     *)
(***************************************************************************)
ScratchBase == 64

\* The native functions of the loaded library with their C signatures:
\* int add(int, int), size_t len(const char *), which is 0 for NULL, and
\* int cmp(const char *, const char *), which is 0 for equal strings.
NativeFns ==
    {[name |-> "add", ret |-> "I32", args |-> <<"I32", "I32">>],
     [name |-> "len", ret |-> "U64", args |-> <<"CString">>],
     [name |-> "cmp", ret |-> "I32", args |-> <<"CString", "CString">>]}

\* The bytes of m from (0-based) offset off up to the first zero byte.
RECURSIVE CStrFrom(_, _)
CStrFrom(m, off) ==
    IF off >= Len(m) \/ m[off + 1] = 0 THEN <<>>
    ELSE <<m[off + 1]>> \o CStrFrom(m, off + 1)

\* The C string a marshalled NativeString argument refers to.
DerefCStr(a, owned, sa) ==
    CASE owned -> a
      [] a = NullPtr -> <<>>
      [] a \in DOMAIN CStringAt -> CStringAt[a]
      [] a[1] >= ScratchBase /\ a = IntBytes(a[1], 8) ->
            CStrFrom(sa.buffer, a[1] - ScratchBase)

\* The sum of the marshalled int arguments from i on.
RECURSIVE SumArgs(_, _)
SumArgs(argv, i) ==
    IF i > Len(argv) THEN Zeros(4)
    ELSE WrappingAdd(argv[i], SumArgs(argv, i + 1))

\* What the native function returns for the marshalled arguments.
NativeCall(fn, argv, owned, sa) ==
    CASE fn.name = "add" -> WrappingAdd(argv[1], argv[2])
      [] fn.name = "sum" -> SumArgs(argv, 1)
      [] fn.name = "len" -> IntBytes(Len(DerefCStr(argv[1], owned, sa)), 8)
      [] fn.name = "cmp" ->
            IF DerefCStr(argv[1], owned, sa) = DerefCStr(argv[2], owned, sa)
            THEN Zeros(4)
            ELSE IntBytes(1, 4)

\* The decimal digits of a natural number: the host's number to string
\* coercion, for the small integers used here.
RECURSIVE Digits(_)
Digits(n) == IF n < 10 THEN <<48 + n>> ELSE Digits(n \div 10) \o <<48 + (n % 10)>>

\* FromLua for mlua::String: a string, or a number coerced to a string.
FromLuaString(value) ==
    CASE value.k = "String" -> Ok(value.v)
      [] value.k = "Integer" /\ value.v = IntBytes(value.v[1], 8) ->
            Ok(Digits(value.v[1]))
      [] value.k \in {"Nil", "Boolean", "LightUserData"} -> Err("conversion")

lua_to_arg(value, ctype) ==
    CASE ctype = "Void" -> Err("Cannot pass void as argument")
      [] ctype = "Pointer" ->
            CASE value.k = "Nil" -> Ok(NullPtr)
              [] value.k \in {"LightUserData", "Integer"} -> Ok(value.v)
              [] value.k = "Number" -> Ok(F64ToU64(value.v))
              [] OTHER -> Err("Expected pointer, buffer, or nil")
      [] ctype = "CString" ->
            LET s == FromLuaString(value)
            IN  IF ~s.ok THEN s
                ELSE IF \E i \in 1..Len(s.v) : s.v[i] = 0
                THEN Err("String contains null byte")
                ELSE s
      [] OTHER -> write_value_at(ctype, value)

\* The host value made from the native result.
call_and_convert(ret_type, result, sa) ==
    CASE ret_type = "Void" -> Nil
      [] ret_type = "Bool" -> Boolean(result # <<0>>)
      [] ret_type \in {"I8", "I16", "I32"} -> Integer(SignExtend(result, 8))
      [] ret_type \in {"U8", "U16", "U32"} -> Integer(ZeroExtend(result, 8))
      [] ret_type = "I64" -> Integer(result)
      [] ret_type = "U64" -> Number(U64ToF64(result))
      [] ret_type = "F32" -> Number(F32ToF64(result))
      [] ret_type = "F64" -> Number(result)
      [] ret_type = "Pointer" ->
            IF result = NullPtr THEN Nil ELSE LightUserData(result)
      [] ret_type = "CString" ->
            IF result = NullPtr THEN Nil
            ELSE String(DerefCStr(result, FALSE, sa))

\* The first failed conversion of a sequence of results, if any.
FirstErr(rs) ==
    IF \A i \in 1..Len(rs) : rs[i].ok THEN Ok(<<>>)
    ELSE rs[CHOOSE i \in 1..Len(rs) :
                ~rs[i].ok /\ \A j \in 1..(i - 1) : rs[j].ok]

\* dynamic_call: the result and the events of the call, "invoke" being the
\* call of the native function.
dynamic_call_unchecked(fn, ret_type, arg_types, args) ==
    LET n == IF Len(args) < Len(arg_types) THEN Len(args) ELSE Len(arg_types)
        arg_values == [i \in 1..n |-> lua_to_arg(args[i], arg_types[i])]
    IN  IF ~FirstErr(arg_values).ok
        THEN [ret |-> FirstErr(arg_values), trace |-> <<>>]
        ELSE [ret |-> Ok(Nil), trace |-> <<"invoke">>]

\* dynamic_call invoking the native function before it looks at the
\* results of the conversions.
dynamic_call_eager(fn, ret_type, arg_types, args) ==
    IF Len(args) # Len(arg_types)
    THEN [ret |-> Err("Expected {} arguments, got {}"), trace |-> <<>>]
    ELSE LET Call(arg_values) ==
                 IF ~FirstErr(arg_values).ok
                 THEN [ret |-> FirstErr(arg_values), trace |-> <<"invoke">>]
                 ELSE [ret |-> Ok(Nil), trace |-> <<"invoke">>]
         IN  Call([i \in 1..Len(args) |->
                      lua_to_arg(args[i], arg_types[i])])

dynamic_call(fn, ret_type, arg_types, args) ==
    IF Len(args) # Len(arg_types)
    THEN [ret |-> Err("Expected {} arguments, got {}"), trace |-> <<>>]
    ELSE LET Call(arg_values) ==
                 IF ~FirstErr(arg_values).ok
                 THEN [ret |-> FirstErr(arg_values), trace |-> <<>>]
                 ELSE [ret |-> Ok(call_and_convert(ret_type,
                                  NativeCall(fn,
                                      [i \in 1..Len(args) |->
                                          arg_values[i].v],
                                      TRUE, Absent),
                                  Absent)),
                       trace |-> <<"invoke">>]
         IN  Call([i \in 1..Len(args) |->
                      lua_to_arg(args[i], arg_types[i])])

\* call_cif: as call_and_convert, with the two word-sized tags.
call_cif(ret_type, result, sa) ==
    IF ret_type \in {"ISize", "USize"} THEN Integer(result)
    ELSE call_and_convert(ret_type, result, sa)

\* scratch.alloc_cstring(bytes) as ArgStorage::push uses it: the address of
\* the copy, the overflow error, or the panic of an overflowing addition.
PushCString(bytes, sa, checks) ==
    LET OkOrElse(r) ==
            CASE r.ret.k = "Some" ->
                    [ret |-> Ok(IntBytes(ScratchBase + BytesToNat(r.ret.v),
                                         8)),
                     arena |-> r.arena]
              [] r.ret.k = "None" ->
                    [ret |-> Err("Scratch arena overflow for string argument"),
                     arena |-> r.arena]
              [] r.ret.k = "panic" ->
                    [ret |-> [ok |-> FALSE, msg |-> "panic", panic |-> TRUE],
                     arena |-> r.arena]
    IN  OkOrElse(alloc_cstring(sa, bytes, checks))

\* ArgStorage::push: the marshalled argument or the error, and the scratch
\* arena after the call.
push(value, ctype, sa, checks) ==
    CASE ctype = "Void" ->
            [ret |-> Err("Cannot pass void as argument"), arena |-> sa]
      [] ctype = "Pointer" ->
            CASE value.k = "Nil" -> [ret |-> Ok(NullPtr), arena |-> sa]
              [] value.k \in {"LightUserData", "Integer"} ->
                    [ret |-> Ok(value.v), arena |-> sa]
              [] value.k = "Number" ->
                    [ret |-> Ok(F64ToU64(value.v)), arena |-> sa]
              [] value.k = "String" -> PushCString(value.v, sa, checks)
              [] OTHER ->
                    [ret |-> Err("Expected pointer, buffer, string, or nil"),
                     arena |-> sa]
      [] ctype = "CString" ->
            CASE value.k = "String" -> PushCString(value.v, sa, checks)
              [] value.k = "Nil" -> [ret |-> Ok(NullPtr), arena |-> sa]
              [] value.k = "LightUserData" ->
                    [ret |-> Ok(value.v), arena |-> sa]
              [] OTHER ->
                    [ret |-> Err("Expected string, pointer, or nil"),
                     arena |-> sa]
      [] OTHER -> [ret |-> write_value_at(ctype, value), arena |-> sa]

\* The loop of call_with_args over the arguments from i on: st is
\* [ret, argv, arena]; the ? operator leaves the loop at the first error.
RECURSIVE PushLoop(_, _, _, _, _)
PushLoop(args, arg_types, i, st, checks) ==
    IF i > Len(args) THEN st
    ELSE LET Pushed(r) ==
                 IF ~r.ret.ok
                 THEN [st EXCEPT !.ret = r.ret, !.arena = r.arena]
                 ELSE PushLoop(args, arg_types, i + 1,
                               [ret |-> st.ret,
                                argv |-> Append(st.argv, r.ret.v),
                                arena |-> r.arena],
                               checks)
         IN  Pushed(push(args[i], arg_types[i], st.arena, checks))

\* call_with_args without the reset after the native call.
call_with_args_no_reset(fn, ret_type, arg_types, args, sa, checks) ==
    IF Len(args) # Len(arg_types)
    THEN [ret |-> Err("Expected {} arguments, got {}"),
          arena |-> sa, trace |-> <<>>]
    ELSE LET Call(storage) ==
                 IF ~storage.ret.ok
                 THEN [ret |-> storage.ret, arena |-> storage.arena,
                       trace |-> <<>>]
                 ELSE [ret |-> Ok(call_cif(ret_type,
                                  NativeCall(fn, storage.argv, FALSE,
                                             storage.arena),
                                  storage.arena)),
                       arena |-> storage.arena,
                       trace |-> <<"invoke">>]
         IN  Call(PushLoop(args, arg_types, 1,
                 [ret |-> Ok(<<>>), argv |-> <<>>, arena |-> sa], checks))

\* SmartBoundFunction::call_with_args: the result, the scratch arena after
\* the call, and the events of the call.
call_with_args(fn, ret_type, arg_types, args, sa, checks) ==
    IF Len(args) # Len(arg_types)
    THEN [ret |-> Err("Expected {} arguments, got {}"),
          arena |-> sa, trace |-> <<>>]
    ELSE LET Call(storage) ==
                 IF ~storage.ret.ok
                 THEN [ret |-> storage.ret, arena |-> storage.arena,
                       trace |-> <<>>]
                 ELSE [ret |-> Ok(call_cif(ret_type,
                                  NativeCall(fn, storage.argv, FALSE,
                                             storage.arena),
                                  storage.arena)),
                       arena |-> scratch_reset(storage.arena),
                       trace |-> <<"invoke", "reset">>]
         IN  Call(PushLoop(args, arg_types, 1,
                 [ret |-> Ok(<<>>), argv |-> <<>>, arena |-> sa], checks))

(***************************************************************************)
(* smart_library.rs: SmartLibrary.                                         *)
(*                                                                         *)
(* An interface is the host table handed to from_interface, a function     *)
(* from names to values; a table value is a signature.  The handle keeps   *)
(* the bound functions and the constants, and, for the claims about the    *)
(* precompiled call interface, cifs: per function name the number of call  *)
(* interfaces built for it so far (Builder::new()...into_cif()).           *)
(***************************************************************************)
\* A signature table { args = {...}, ret = "..." } of the interface.
Signature(ret, args) == [k |-> "Table", ret |-> ret, args |-> args]

\* The userdata the host gets for a bound function.
SmartBoundFunction(name, ret_type, arg_types) ==
    [k |-> "SmartBoundFunction", fn_ptr |-> name, ret_type |-> ret_type,
     arg_types |-> arg_types]

\* from_interface: symbols are the names the library exports.
from_interface(symbols, path, interface) ==
    LET fns == {n \in DOMAIN interface : interface[n].k = "Table"}
        consts == {n \in DOMAIN interface :
                      interface[n].k \in {"Integer", "Number", "String",
                                          "Boolean"}}
    IN  IF \E n \in fns : n \notin symbols
        THEN Err("Symbol '{}' not found: {}")
        ELSE Ok([kind |-> "SmartLibrary",
                 path |-> path,
                 functions |->
                     [n \in fns |->
                         SmartBoundFunction(n, interface[n].ret,
                                            interface[n].args)],
                 constants |-> [n \in consts |-> interface[n]],
                 cifs |-> [n \in fns |-> 1]])

\* The __index meta method of SmartLibrary: the value returned and the
\* handle after it; func.clone() builds a call interface.
SmartLibraryIndex(this, key) ==
    CASE key \in DOMAIN this.constants ->
            [ret |-> this.constants[key], lib |-> this]
      [] key \in DOMAIN this.functions ->
            [ret |-> this.functions[key],
             lib |-> [this EXCEPT !.cifs[key] = @ + 1]]
      [] OTHER -> [ret |-> Nil, lib |-> this]

\* lib.key on the handle: the userdata's own field path and its own method
\* close are found before the __index meta method is asked.
MemberLookup(this, key) ==
    CASE key = "path" -> [ret |-> String(this.path), lib |-> this]
      [] key = "close" ->
            [ret |-> [k |-> "Function", name |-> "close"], lib |-> this]
      [] OTHER -> SmartLibraryIndex(this, key)

(***************************************************************************)
(* callback.rs: FfiCallback and the trampoline.                            *)
(*                                                                         *)
(* The host runtime has one number type, the f64.  A LuaValue::Integer    *)
(* handed to a host function becomes that number, and a number the host   *)
(* function returns is handed back as LuaValue::Integer when it is within *)
(* f64::EPSILON of an i64, as LuaValue::Number otherwise.                  *)
(***************************************************************************)
\* The number a host function returned, as the LuaValue the binding makes.
FromStack(n) ==
    LET Classify(v, i) ==
            CASE v.cls = "zero" -> Integer(Zeros(8))
              [] v.cls \in {"nan", "inf"} -> Number(n)
              [] v.cls = "fin" ->
                    IF i.ok /\ (\/ v.scale + Len(v.mag) - 1 < 0 - 52
                                \/ I64ToF64(i.v) = n)
                    THEN Integer(i.v)
                    ELSE Number(n)
    IN  Classify(Decode(F64Format, n), F64ToI64Checked(n))

\* x * 2 on the host's numbers.
Double(n) ==
    LET Scaled(v) ==
            IF v.cls = "fin" THEN Encode(F64Format, v.sign, v.mag, v.scale + 1)
            ELSE n
    IN  Scaled(Decode(F64Format, n))

\* func.call(lua_args) for the host functions used here: "double" returns
\* its argument times two, "none" returns no value, "error" raises.
HostCall(func, lua_args) ==
    CASE func = "error" -> Err("runtime error")
      [] func = "none" -> Ok(<<>>)
      [] func = "double" ->
            CASE lua_args = <<>> -> Err("attempt to perform arithmetic on nil")
              [] lua_args[1].k = "Number" ->
                    Ok(<<FromStack(Double(lua_args[1].v))>>)
              [] lua_args[1].k = "Integer" ->
                    Ok(<<FromStack(Double(I64ToF64(lua_args[1].v)))>>)

\* The LuaValue the trampoline makes of the native argument at arg_ptr.
ArgToLua(arg_type, bytes) ==
    CASE arg_type = "Bool" -> Boolean(bytes # <<0>>)
      [] arg_type = "Pointer" -> LightUserData(bytes)
      [] arg_type = "CString" ->
            IF bytes = NullPtr THEN Nil ELSE String(DerefCStr(bytes, FALSE, Absent))
      [] OTHER -> call_cif(arg_type, bytes, Absent)

\* The bytes the trampoline stores in the return slot for the first value
\* the host function returned.
RetBytes(ret_type, first) ==
    LET as_integer == IF first.k = "Integer" THEN first.v ELSE Zeros(8)
        as_number == IF first.k = "Number" THEN first.v ELSE Zeros(8)
    IN  CASE ret_type = "Void" -> <<>>
          [] ret_type = "Bool" ->
                IF first.k = "Boolean" THEN first.v ELSE <<0>>
          [] ret_type \in {"I8", "U8", "I16", "U16", "I32", "U32", "I64",
                           "ISize", "USize"} ->
                Truncate(as_integer, width(ret_type))
          [] ret_type = "U64" -> F64ToU64(as_number)
          [] ret_type = "F32" -> F64ToF32(as_number)
          [] ret_type = "F64" -> as_number
          [] ret_type = "Pointer" ->
                IF first.k = "LightUserData" THEN first.v ELSE NullPtr
          [] ret_type = "CString" -> NullPtr

\* callback_trampoline storing the conversion of nil in the return slot
\* when the host function raised an error.
callback_trampoline_nil_on_error(data, args, registry_ok, slot) ==
    LET Converted(call_result) ==
            IF call_result.ok
            THEN [slot |-> Splice(slot, 0,
                      RetBytes(data.ret_type,
                          IF call_result.v = <<>> THEN Nil
                          ELSE call_result.v[1])),
                  trace |-> <<>>]
            ELSE [slot |-> Splice(slot, 0, RetBytes(data.ret_type, Nil)),
                  trace |-> <<"Lua function error">>]
    IN  IF ~registry_ok
        THEN [slot |-> slot, trace |-> <<"Failed to get Lua function">>]
        ELSE Converted(HostCall(data.func,
                 [i \in 1..Len(data.arg_types) |->
                     ArgToLua(data.arg_types[i], args[i])]))

\* callback_trampoline: the return slot after it, and the lines it wrote to
\* the error stream.  registry_ok is whether lua.registry_value succeeds.
callback_trampoline(data, args, registry_ok, slot) ==
    LET Converted(call_result) ==
            IF call_result.ok
            THEN [slot |-> Splice(slot, 0,
                      RetBytes(data.ret_type,
                          IF call_result.v = <<>> THEN Nil
                          ELSE call_result.v[1])),
                  trace |-> <<>>]
            ELSE [slot |-> slot, trace |-> <<"Lua function error">>]
    IN  IF ~registry_ok
        THEN [slot |-> slot, trace |-> <<"Failed to get Lua function">>]
        ELSE Converted(HostCall(data.func,
                 [i \in 1..Len(data.arg_types) |->
                     ArgToLua(data.arg_types[i], args[i])]))

\* FfiCallback::new: env tells whether prep_cif, closure_alloc and
\* prep_closure_mut succeed.  The closures are numbered in the order of
\* their allocation; frees counts the closure_free calls on each.
FfiCallbackNewLeaking(func, ret_type, arg_types, env, fr) ==
    CASE Len(arg_types) > 16 ->
            [ret |-> Err("Callbacks with >16 args not supported"),
             frees |-> fr, closure |-> 0]
      [] ~env.cif_ok ->
            [ret |-> Err("Failed to prepare callback CIF"),
             frees |-> fr, closure |-> 0]
      [] ~env.alloc_ok ->
            [ret |-> Err("Failed to allocate closure"),
             frees |-> fr, closure |-> 0]
      [] ~env.prep_ok ->
            [ret |-> Err("Failed to prepare closure"),
             frees |-> Append(fr, 0), closure |-> Len(fr) + 1]
      [] OTHER ->
            [ret |-> Ok([closure |-> Len(fr) + 1, ret_type |-> ret_type,
                         arg_types |-> arg_types, func |-> func,
                         alive |-> TRUE]),
             frees |-> Append(fr, 0), closure |-> Len(fr) + 1]

FfiCallbackNew(func, ret_type, arg_types, env, fr) ==
    CASE Len(arg_types) > 16 ->
            [ret |-> Err("Callbacks with >16 args not supported"),
             frees |-> fr, closure |-> 0]
      [] ~env.cif_ok ->
            [ret |-> Err("Failed to prepare callback CIF"),
             frees |-> fr, closure |-> 0]
      [] ~env.alloc_ok ->
            [ret |-> Err("Failed to allocate closure"),
             frees |-> fr, closure |-> 0]
      [] ~env.prep_ok ->
            [ret |-> Err("Failed to prepare closure"),
             frees |-> Append(fr, 1), closure |-> Len(fr) + 1]
      [] OTHER ->
            [ret |-> Ok([closure |-> Len(fr) + 1, ret_type |-> ret_type,
                         arg_types |-> arg_types, func |-> func,
                         alive |-> TRUE]),
             frees |-> Append(fr, 0), closure |-> Len(fr) + 1]

\* Drop for FfiCallback: closure_free unless the closure is null.
drop(cb, fr) ==
    IF cb.closure # 0 THEN [fr EXCEPT ![cb.closure] = @ + 1] ELSE fr

(***************************************************************************)
(* struct_mapper.rs: StructDefinition::from_schema.                        *)
(*                                                                         *)
(* A schema is a sequence of field definitions [name, type, len]: the     *)
(* field name, the type value (a host string here), and the optional      *)
(* third element, the array length (None when absent).                     *)
(***************************************************************************)
FieldDefs ==
    [name : {"a", "b", "c"},
     type : {"u32", "u8", "u64", "void", "bogus"},
     len : {None, 3}]

NoDef == [kind |-> "NoDef"]

\* The padding that brings offset up to a multiple of align (lines 75, 93).
PaddingNoWrap(offset, align) == align - (offset % align)

Padding(offset, align) == (align - (offset % align)) % align

\* HashMap::insert: a later insert of the same key replaces the index.
MapInsert(m, k, v) == [x \in DOMAIN m \cup {k} |-> IF x = k THEN v ELSE m[x]]

\* One iteration of the loop over the schema, from field i on; st is
\* [fields, field_map, offset, max_align].
RECURSIVE SchemaLoop(_, _, _)
SchemaLoop(sch, i, st) ==
    IF i > Len(sch)
    THEN LET trailing_padding == Padding(st.offset, st.max_align)
         IN  [kind |-> "Ok",
              fields |-> st.fields,
              field_map |-> st.field_map,
              size |-> st.offset + trailing_padding,
              alignment |-> st.max_align]
    ELSE LET field_def == sch[i]
             ctype == from_str(field_def.type)
         IN  IF ctype = "NoType"
             THEN [kind |-> "Err", msg |-> "Unknown type"]
             ELSE LET field_size == size(ctype)
                      field_align == alignment(ctype)
                      actual_size == IF field_def.len # None
                                     THEN field_size * field_def.len
                                     ELSE field_size
                      offset == st.offset + Padding(st.offset, field_align)
                      field == [name |-> field_def.name,
                                ctype |-> ctype,
                                offset |-> offset,
                                size |-> actual_size,
                                array_len |-> field_def.len]
                  IN  SchemaLoop(sch, i + 1,
                        [fields |-> Append(st.fields, field),
                         field_map |-> MapInsert(st.field_map, field_def.name,
                                                 Len(st.fields)),
                         offset |-> offset + actual_size,
                         max_align |-> Max(st.max_align, field_align)])

from_schema(sch) ==
    SchemaLoop(sch, 1,
        [fields |-> <<>>, field_map |-> <<>>, offset |-> 0, max_align |-> 1])

\* field_size * len on usize: field_size is 0, 1, 2, 4 or 8 and len a
\* machine word; the wrapped product and whether it overflowed.
RECURSIVE MulOv(_, _)
MulOv(field_size, len8) ==
    IF field_size = 0 THEN [v |-> Zeros(8), ov |-> FALSE]
    ELSE IF field_size = 1 THEN [v |-> len8, ov |-> FALSE]
    ELSE LET Twice(half) ==
                 [v |-> WrappingAdd(half.v, half.v),
                  ov |-> half.ov \/ AddOv(half.v, half.v).ov]
         IN  Twice(MulOv(field_size \div 2, len8))

\* The loop of from_schema with its offsets and sizes as the machine words
\* they are, for array lengths up to the largest usize: st is [fields,
\* field_map, offset, max_align, ov], ov telling whether an addition or
\* the multiplication has overflowed.  An alignment is 1, 2, 4 or 8, so
\* offset % field_align is taken of the low byte.  A field without an array
\* length has the empty word for it.
RECURSIVE SchemaLoopWords(_, _, _)
SchemaLoopWords(sch, i, st) ==
    IF i > Len(sch)
    THEN LET Total(total_size) ==
                 [kind |-> "Ok",
                  fields |-> st.fields,
                  field_map |-> st.field_map,
                  size |-> total_size.v,
                  alignment |-> st.max_align,
                  ov |-> st.ov \/ total_size.ov]
         IN  Total(AddOv(st.offset,
                         IntBytes(Padding(st.offset[1], st.max_align), 8)))
    ELSE LET Store(ctype, actual_size, offset) ==
                 LET Next(end) ==
                         SchemaLoopWords(sch, i + 1,
                             [fields |->
                                  Append(st.fields,
                                         [name |-> sch[i].name,
                                          ctype |-> ctype,
                                          offset |-> offset.v,
                                          size |-> actual_size.v,
                                          array_len |-> sch[i].len]),
                              field_map |->
                                  MapInsert(st.field_map, sch[i].name,
                                            Len(st.fields)),
                              offset |-> end.v,
                              max_align |-> Max(st.max_align,
                                                alignment(ctype)),
                              ov |-> \/ st.ov
                                     \/ actual_size.ov
                                     \/ offset.ov
                                     \/ end.ov])
                 IN  Next(AddOv(offset.v, actual_size.v))
             Field(ctype) ==
                 IF ctype = "NoType"
                 THEN [kind |-> "Err", msg |-> "Unknown type"]
                 ELSE Store(ctype,
                            IF sch[i].len # <<>>
                            THEN MulOv(size(ctype), sch[i].len)
                            ELSE [v |-> IntBytes(size(ctype), 8),
                                  ov |-> FALSE],
                            AddOv(st.offset,
                                  IntBytes(Padding(st.offset[1],
                                                   alignment(ctype)), 8)))
         IN  Field(from_str(sch[i].type))

\* from_schema on machine words: the definition a build without overflow
\* checks returns, and a panic where a build with them overflows.
from_schema_words(sch, checks) ==
    LET Built(r) ==
            IF r.kind = "Ok" /\ r.ov /\ checks THEN [kind |-> "panic"]
            ELSE r
    IN  Built(SchemaLoopWords(sch, 1,
                  [fields |-> <<>>, field_map |-> <<>>, offset |-> Zeros(8),
                   max_align |-> 1, ov |-> FALSE]))

\* The schema of the struct scenario: a u32, a u8 and a u32.
ExampleSchema ==
    <<[name |-> "a", type |-> "u32", len |-> None],
      [name |-> "b", type |-> "u8", len |-> None],
      [name |-> "c", type |-> "u32", len |-> None]>>

(***************************************************************************)
(* struct_mapper.rs: StructView.                                           *)
(***************************************************************************)
StructViewNew(raw, d) ==
    [ptr |-> raw.addr, def |-> d, arena_id |-> raw.arena_id]

\* StructDefinition::get_field: the field of that name, if there is one.
get_field(d, name) ==
    IF name \in DOMAIN d.field_map
    THEN [some |-> TRUE, v |-> d.fields[d.field_map[name] + 1]]
    ELSE [some |-> FALSE]

\* get_field_by_index: self.fields.get(index), index counted from 0.
get_field_by_index(d, index) ==
    IF index < Len(d.fields)
    THEN [some |-> TRUE, v |-> d.fields[index + 1]]
    ELSE [some |-> FALSE]

\* read_field: the results the read can have.
read_field(v, m, name) ==
    LET Read(field) ==
            IF ~field.some THEN {Err("Unknown field: {}")}
            ELSE MemRead(m, v.ptr + field.v.offset, field.v.ctype)
    IN  Read(get_field(v.def, name))

\* write_field storing every field as a 64-bit integer.
write_field_i64(v, m, name, value) ==
    LET Write(field) ==
            IF ~field.some
            THEN [ret |-> Err("Unknown field: {}"), mem |-> m, wild |-> FALSE]
            ELSE MemWrite(m, v.ptr + field.v.offset, "I64", value)
    IN  Write(get_field(v.def, name))

\* write_field: the result, the memory after the call, and whether the
\* access left the region.
write_field(v, m, name, value) ==
    LET Write(field) ==
            IF ~field.some
            THEN [ret |-> Err("Unknown field: {}"), mem |-> m, wild |-> FALSE]
            ELSE MemWrite(m, v.ptr + field.v.offset, field.v.ctype, value)
    IN  Write(get_field(v.def, name))

(***************************************************************************)
(* The components.  Each specification below runs one component; the       *)
(* variables of the others stay at their idle values.                      *)
(***************************************************************************)
NoCall == [op |-> "none"]

\* The variables of the components not named in S are idle.
IdleExcept(S) ==
    /\ IF "layout" \in S THEN TRUE
       ELSE schema = <<>> /\ def = NoDef /\ layoutErr = FALSE
    /\ IF "mem" \in S THEN TRUE ELSE mem = <<>> /\ wild = FALSE
    /\ IF "pointer" \in S THEN TRUE
       ELSE rp = Absent /\ tp = Absent /\ ptrRet = NoCall
    /\ IF "arena" \in S THEN TRUE
       ELSE /\ arena = Absent
            /\ arenaRet = NoCall
            /\ arena_id_counter = 1
            /\ threads = <<>>
    /\ IF "scratch" \in S THEN TRUE
       ELSE /\ scratch = Absent
            /\ scratchRet = NoCall
            /\ overflow_checks = FALSE
    /\ IF "call" \in S THEN TRUE ELSE callRet = NoCall
    /\ IF "callback" \in S THEN TRUE
       ELSE cbs = <<>> /\ frees = <<>> /\ cbRet = NoCall
    /\ IF "buffer" \in S THEN TRUE ELSE buf = Absent /\ bufRet = NoCall
    /\ IF "view" \in S THEN TRUE ELSE view = Absent /\ viewRet = NoCall
    /\ IF "smart" \in S THEN TRUE ELSE lib = Absent /\ libRet = NoCall

(***************************************************************************)
(* The layout component: the host fills a schema table and calls          *)
(* ffi.struct(schema).                                                     *)
(***************************************************************************)
InitLayout == IdleExcept({})

SchemaPush ==
    /\ def = NoDef
    /\ ~layoutErr
    /\ Len(schema) < MaxFields
    /\ \E f \in FieldDefs : schema' = Append(schema, f)
    /\ UNCHANGED <<def, layoutErr, layoutRest>>

StructNew ==
    /\ def = NoDef
    /\ ~layoutErr
    /\ LET r == from_schema(schema)
       IN  IF r.kind = "Ok"
           THEN /\ def' = r
                /\ layoutErr' = FALSE
           ELSE /\ def' = NoDef
                /\ layoutErr' = TRUE
    /\ UNCHANGED <<schema, layoutRest>>

SpecLayout == InitLayout /\ [][SchemaPush \/ StructNew]_vars

(***************************************************************************)
(* The wide layout component: ffi.struct on schemas of up to MaxFields     *)
(* fields whose array lengths are machine words, 3 and 2^63 among them,    *)
(* in a build with and in a build without overflow checks.                 *)
(***************************************************************************)
WideFieldDefs ==
    [name : {"a", "b"},
     type : {"u8", "u32", "u64"},
     len : {<<>>, IntBytes(3, 8), <<0, 0, 0, 0, 0, 0, 0, 128>>}]

InitLayoutWords ==
    /\ IdleExcept({"layout", "scratch"})
    /\ scratch = Absent
    /\ scratchRet = NoCall
    /\ overflow_checks \in BOOLEAN
    /\ schema \in UNION {[1..n -> WideFieldDefs] : n \in 0..MaxFields}
    /\ def = NoDef
    /\ layoutErr = FALSE

StructNewWords ==
    /\ def = NoDef
    /\ ~layoutErr
    /\ LET Done(r) ==
               IF r.kind = "Ok"
               THEN /\ def' = r
                    /\ layoutErr' = FALSE
               ELSE /\ def' = NoDef
                    /\ layoutErr' = TRUE
       IN  Done(from_schema_words(schema, overflow_checks))
    /\ UNCHANGED <<schema, layoutRest>>

SpecLayoutWords == InitLayoutWords /\ [][StructNewWords]_vars

\* C29: in the layout computed for a schema the fields lie in declaration
\* order without overlapping: each offset is a multiple of the alignment
\* of the field's type, a field ends at or before the offset of the next
\* one, the last field ends at or before the total size, and the total
\* size is a multiple of the struct alignment.
C29_OrderedDisjoint ==
    def # NoDef =>
        /\ Len(def.fields) = Len(schema)
        /\ \A i \in 1..Len(def.fields) :
              LET f == def.fields[i]
                  end == AddOv(f.offset, f.size)
                  next == IF i < Len(def.fields) THEN def.fields[i + 1].offset
                          ELSE def.size
              IN  /\ f.name = schema[i].name
                  /\ f.offset[1] % alignment(f.ctype) = 0
                  /\ ~end.ov
                  /\ ~Gt(end.v, next)
        /\ def.size[1] % def.alignment = 0

\* C30: on a struct layout the lookup by name and the lookup by index
\* agree: for every index i of the field list, get_field of the name of
\* get_field_by_index(i) is the descriptor get_field_by_index(i), with the
\* same offset, type and size, also when
\* the schema repeats a field name; get_field(name) is none exactly when no
\* field has that name, and get_field_by_index(i) is none exactly when i is
\* not below the field count.
C30_LookupsAgree ==
    def # NoDef =>
        /\ \A i \in 0..MaxFields :
              LET at == get_field_by_index(def, i)
                  Same(named) ==
                      /\ named.some
                      /\ named.v.offset = at.v.offset
                      /\ named.v.ctype = at.v.ctype
                      /\ named.v.size = at.v.size
              IN  /\ at.some <=> i < Len(def.fields)
                  /\ at.some =>
                        /\ at.v = def.fields[i + 1]
                        /\ Same(get_field(def, at.v.name))
        /\ \A name \in {"a", "b", "c"} :
              get_field(def, name).some
                  <=> \E i \in 1..Len(def.fields) : def.fields[i].name = name

(***************************************************************************)
(* The type name component: the host declares a struct of one field whose  *)
(* type is a string, any spelling of a type name or another string, and    *)
(* ffi.struct parses it and takes the size and alignment of the tag.       *)
(***************************************************************************)
InitTypes ==
    /\ IdleExcept({"layout"})
    /\ \E s \in {e[1] : e \in create_types_table}
                \cup {into_lua(t) : t \in CType}
                \cup {"int8", "uint8", "byte", "int16", "uint16", "int32",
                      "uint32", "int64", "longlong", "uint64", "ulonglong",
                      "void*", "cstring", "char*"}
                \cup {"", "bogus", "I32", "Void", "isize", "usize", "i32 ",
                      "char *", "str", "i128", "f16", "boolean"},
          l \in {None, 3} :
          schema = <<[name |-> "a", type |-> s, len |-> l]>>
    /\ def = NoDef
    /\ layoutErr = FALSE

SpecTypes == InitTypes /\ [][StructNew]_vars

(***************************************************************************)
(* C13: for every type tag t, size(t) >= 0 and alignment(t) =             *)
(* max(size(t), 1) (void has size 0 and alignment 1); parsing the          *)
(* canonical name of t (the name t has as a host value) and each alias     *)
(* spelling of t returns t, and parsing any other string returns none.     *)
(* SpellingOf lists the spellings with the tag each one stands for.        *)
(***************************************************************************)
SpellingOf ==
    [t \in CType |->
        CASE t = "Void" -> {"void"}
          [] t = "Bool" -> {"bool"}
          [] t = "I8" -> {"i8", "int8", "char"}
          [] t = "U8" -> {"u8", "uint8", "uchar", "byte"}
          [] t = "I16" -> {"i16", "int16", "short"}
          [] t = "U16" -> {"u16", "uint16", "ushort"}
          [] t = "I32" -> {"i32", "int32", "int"}
          [] t = "U32" -> {"u32", "uint32", "uint"}
          [] t = "I64" -> {"i64", "int64", "long", "longlong"}
          [] t = "U64" -> {"u64", "uint64", "ulong", "ulonglong", "size_t"}
          [] t = "F32" -> {"f32", "float"}
          [] t = "F64" -> {"f64", "double"}
          [] t = "Pointer" -> {"pointer", "ptr", "void*"}
          [] t = "CString" -> {"string", "cstring", "char*"}]

SizeOf ==
    [t \in CType |->
        CASE t \in {"Bool", "I8", "U8"} -> 1
          [] t \in {"I16", "U16"} -> 2
          [] t \in {"I32", "U32", "F32"} -> 4
          [] t = "Void" -> 0
          [] OTHER -> 8]

C13_TypeTable ==
    /\ \A t \in CType :
          /\ size(t) >= 0
          /\ size(t) = SizeOf[t]
          /\ alignment(t) = (IF size(t) >= 1 THEN size(t) ELSE 1)
          /\ into_lua(t) \in SpellingOf[t]
          /\ from_str(into_lua(t)) = t
          /\ \A s \in SpellingOf[t] : from_str(s) = t
    /\ size("Void") = 0 /\ alignment("Void") = 1
    /\ \A e \in create_types_table :
          /\ from_str(e[1]) \in CType
          /\ from_str(e[1]) = from_str(e[2])
          /\ e[1] \in SpellingOf[from_str(e[1])]
    /\ def # NoDef =>
          /\ schema[1].type \in SpellingOf[def.fields[1].ctype]
          /\ def.alignment = alignment(def.fields[1].ctype)
          /\ def.fields[1].size
                = size(def.fields[1].ctype)
                    * (IF schema[1].len = None THEN 1 ELSE schema[1].len)
    /\ layoutErr =>
          /\ from_str(schema[1].type) \notin CType
          /\ \A t \in CType : schema[1].type \notin SpellingOf[t]
    /\ (def = NoDef /\ ~layoutErr) =>
          \/ from_str(schema[1].type) \in CType
          \/ \A t \in CType : schema[1].type \notin SpellingOf[t]

C13_Witness ==
    /\ def # NoDef
    /\ schema[1].type = "ulonglong"
    /\ def.fields[1].ctype = "U64"

C13_WitnessNone ==
    /\ layoutErr
    /\ schema[1].type = "usize"

(***************************************************************************)
(* C1: from_schema places the fields in declaration order by the C rule:  *)
(* each offset is the running cursor rounded up to the alignment of the    *)
(* field's type (an array field uses its element's alignment and takes     *)
(* element size x length bytes), the struct alignment is the largest       *)
(* field alignment (1 without fields), the size is the final cursor        *)
(* rounded up to the struct alignment; [(a,U32),(b,U8),(c,U32)] gives      *)
(* offsets 0, 4, 8, sizes 4, 1, 4, size 12, alignment 4.                   *)
(***************************************************************************)
RoundUp(x, a) == ((x + a - 1) \div a) * a

RECURSIVE CursorAfter(_, _)
CursorAfter(fs, n) ==
    IF n = 0 THEN 0
    ELSE RoundUp(CursorAfter(fs, n - 1), alignment(fs[n].ctype)) + fs[n].size

RECURSIVE MaxAlignOf(_, _)
MaxAlignOf(fs, n) ==
    IF n = 0 THEN 1 ELSE Max(MaxAlignOf(fs, n - 1), alignment(fs[n].ctype))

NearRegion(a) ==
    /\ a >= RegionBase
    /\ a <= RegionBase + RegionSize

IsErr(r, msg) == ~r.ok /\ r.msg = msg

InitPointer ==
    /\ IdleExcept({"mem", "pointer"})
    /\ mem = Zeros(RegionSize)
    /\ wild = FALSE
    /\ rp = managed(RegionBase, 1, RegionSize)
    /\ tp = Absent
    /\ ptrRet = NoCall

\* ffi.cast(ptr, type) of the raw pointer.
Cast ==
    /\ \E ct \in {"U8", "U16", "I32", "Void"} :
          /\ tp' = TypedPointerNew(rp, ct)
          /\ ptrRet' = [op |-> "cast", index |-> 0, count |-> 0,
                        ret |-> Ok(Nil)]
    /\ UNCHANGED <<memVars, rp, pointerRest>>

\* ptr + n, ptr - n on a typed pointer.
OffsetElements ==
    /\ tp # Absent
    /\ \E count \in (0 - 1)..(RegionSize + 1) :
          /\ NearRegion(offset_elements(tp, count).addr)
          /\ tp' = offset_elements(tp, count)
          /\ ptrRet' = [op |-> "offset_elements", index |-> count,
                        count |-> tp.element_count, ret |-> Ok(Nil)]
    /\ UNCHANGED <<memVars, rp, pointerRest>>

\* ptr:get(index), ptr[index].
Get ==
    /\ tp # Absent
    /\ \E index \in 0..(RegionSize + 1) : \E r \in read_at(tp, mem, index) :
          /\ ptrRet' = [op |-> "get", index |-> index, count |-> 0,
                        ret |-> r]
          /\ wild' = (wild \/ "wild" \in DOMAIN r)
    /\ UNCHANGED <<mem, rp, tp, pointerRest>>

\* ptr:set(index, value), ptr[index] = value.
Set ==
    /\ tp # Absent
    /\ \E index \in 0..(RegionSize + 1),
          value \in {Integer(IntBytes(7, 8)), String(<<120>>)} :
          LET w == write_at(tp, mem, index, value)
          IN  /\ ptrRet' = [op |-> "set", index |-> index, count |-> 0,
                            ret |-> w.ret]
              /\ mem' = w.mem
              /\ wild' = (wild \/ w.wild)
    /\ UNCHANGED <<rp, tp, pointerRest>>

\* ptr:toRaw().
ToRaw ==
    /\ tp # Absent
    /\ rp' = toRaw(tp)
    /\ ptrRet' = [op |-> "toRaw", index |-> 0, count |-> 0, ret |-> Ok(Nil)]
    /\ UNCHANGED <<memVars, tp, pointerRest>>

SpecPointer ==
    InitPointer /\ [][Cast \/ OffsetElements \/ Get \/ Set \/ ToRaw]_vars

(***************************************************************************)
(* C2: for a TypedPointer with a known element count c > 0, get(i) and     *)
(* set(i, v) fail with the index-out-of-bounds error for every i >= c and  *)
(* pass the bounds check for every i < c; offset_elements(c) yields a      *)
(* pointer whose element-count hint is 0.                                  *)
(***************************************************************************)
C2_TypedPointerBounds ==
    /\ (ptrRet.op \in {"get", "set"} /\ tp.element_count > 0) =>
          (ptrRet.index >= tp.element_count
              <=> IsErr(ptrRet.ret, "Index out of bounds"))
    /\ (/\ ptrRet.op = "offset_elements"
        /\ ptrRet.count > 0
        /\ ptrRet.index = ptrRet.count) => tp.element_count = 0

C2_Witness ==
    /\ ptrRet.op = "get"
    /\ tp.element_count = RegionSize
    /\ ptrRet.index = tp.element_count
    /\ IsErr(ptrRet.ret, "Index out of bounds")

\* C14: for a pointer obtained from an arena allocation of s bytes, no
\* sequence of offsets, casts to a typed pointer and conversions back to a
\* raw pointer yields a pointer through which a get or set touching a byte
\* outside the original s-byte region succeeds.
C14_NoAccessOutsideRegion == ~wild

(***************************************************************************)
(* The raw pointer component: the host holds a RawPointer, the pointer of  *)
(* an arena allocation of RegionSize zeroed bytes, a pointer made from the *)
(* region's address with ffi.ptr (no size hint), or ffi.ptr(0); it moves   *)
(* the pointer by bytes and reads and writes through it.  ptrRet keeps the *)
(* operation, its arguments, the memory before it and the result.          *)
(***************************************************************************)
InitRaw ==
    /\ IdleExcept({"mem", "pointer"})
    /\ mem = Zeros(RegionSize)
    /\ wild = FALSE
    /\ rp \in {managed(RegionBase, 1, RegionSize), managed(RegionBase, 0, 0),
               managed(0, 0, 0)}
    /\ tp = Absent
    /\ ptrRet = NoCall

\* ptr + n, ptr - n, ptr:offset(n) on a raw pointer.
OffsetBytes ==
    /\ rp.addr # 0
    /\ \E offset \in (0 - 1)..(RegionSize + 1) :
          /\ NearRegion(offset_bytes(rp, offset).addr)
          /\ rp' = offset_bytes(rp, offset)
          /\ ptrRet' = [op |-> "offset", offset |-> offset]
    /\ UNCHANGED <<memVars, tp, pointerRest>>

\* ptr:read(offset, type), ffi.read(ptr, offset, type).
Read ==
    /\ \E offset \in 0..(RegionSize + 1), ctype \in {"U8", "I32", "Void"} :
          \E r \in read(rp, mem, offset, ctype) :
              /\ ptrRet' = [op |-> "read", offset |-> offset,
                            ctype |-> ctype, value |-> Nil, before |-> mem,
                            ret |-> r]
              /\ wild' = (wild \/ "wild" \in DOMAIN r)
    /\ UNCHANGED <<mem, rp, tp, pointerRest>>

\* ptr:write(offset, type, value), ffi.write(ptr, offset, type, value).
Write ==
    /\ \E offset \in 0..(RegionSize + 1), ctype \in {"U8", "I32", "Void"},
          value \in {Integer(IntBytes(7, 8)), String(<<120>>)} :
          LET Done(w) ==
                  /\ ptrRet' = [op |-> "write", offset |-> offset,
                                ctype |-> ctype, value |-> value,
                                before |-> mem, ret |-> w.ret]
                  /\ mem' = w.mem
                  /\ wild' = (wild \/ w.wild)
          IN  Done(write(rp, mem, offset, ctype, value))
    /\ UNCHANGED <<rp, tp, pointerRest>>

SpecRaw == InitRaw /\ [][OffsetBytes \/ Read \/ Write]_vars

C18_WitnessNull ==
    /\ ptrRet.op = "read"
    /\ rp.addr = 0
    /\ IsErr(ptrRet.ret, "Cannot read from null pointer")

C18_WitnessAccess ==
    /\ ptrRet.op = "write"
    /\ rp = managed(RegionBase + 1, 1, RegionSize - 1)
    /\ ptrRet.offset = 2
    /\ ptrRet.ctype = "U8"
    /\ ptrRet.ret.ok
    /\ mem[4] = 7

(***************************************************************************)
(* The arena component: the host creates an Arena and calls alloc,         *)
(* allocAligned, allocType, allocArray and reset on it.  arenaRet keeps    *)
(* the call, the arena as it was before the call, and the result.          *)
(***************************************************************************)
InitArena ==
    /\ IdleExcept({"arena"})
    /\ arena = ArenaNew(1)
    /\ arenaRet = NoCall
    /\ arena_id_counter = 2
    /\ threads = <<>>

Returned(op, r) ==
    /\ arena' = r.arena
    /\ arenaRet' = [op |-> op, before |-> arena, ret |-> r.ret]
    /\ UNCHANGED <<arena_id_counter, threads, arenaRest>>

ArenaAlloc ==
    /\ allocation_count(arena) < MaxChunks
    /\ \E sz \in {0, 3}, null \in BOOLEAN :
          Returned("alloc", alloc(arena, sz, null))

ArenaAllocAligned ==
    /\ allocation_count(arena) < MaxChunks
    /\ \E sz \in {0, 3}, align \in {0, 3, 4}, null \in BOOLEAN :
          Returned("alloc_aligned", alloc_aligned(arena, sz, align, null))

ArenaAllocType ==
    /\ allocation_count(arena) < MaxChunks
    /\ \E ctype \in {"Void", "I32"}, null \in BOOLEAN :
          Returned("alloc_type", alloc_type(arena, ctype, null))

ArenaAllocArray ==
    /\ allocation_count(arena) < MaxChunks
    /\ \E ctype \in {"Void", "I32"}, count \in {0, 2}, null \in BOOLEAN :
          Returned("alloc_array", alloc_array(arena, ctype, count, null))

ArenaReset ==
    /\ arena # Absent
    /\ Returned("reset", [ret |-> Ok(Nil), arena |-> reset(arena)])

SpecArena ==
    InitArena /\ [][\/ ArenaAlloc
                    \/ ArenaAllocAligned
                    \/ ArenaAllocType
                    \/ ArenaAllocArray
                    \/ ArenaReset]_vars

(***************************************************************************)
(* C3: under any sequence of alloc, alloc_aligned, alloc_type, alloc_array *)
(* and reset calls, allocation_count and total_allocated never decrease    *)
(* between two resets, and both are 0 immediately after every reset.       *)
(***************************************************************************)
C3_ArenaMonotone ==
    [][IF arenaRet'.op = "reset"
       THEN /\ allocation_count(arena') = 0
            /\ total_allocated(arena') = 0
       ELSE /\ allocation_count(arena') >= allocation_count(arena)
            /\ total_allocated(arena') >= total_allocated(arena)]_vars

C3_Witness ==
    /\ arenaRet.op = "reset"
    /\ allocation_count(arenaRet.before) = MaxChunks
    /\ total_allocated(arenaRet.before) > 0
    /\ allocation_count(arena) = 0
    /\ total_allocated(arena) = 0

(***************************************************************************)
(* C4: an Arena allocation call that fails (size 0, element count 0, a     *)
(* zero-sized type, an alignment that is not a power of two, the allocator *)
(* returning null) leaves allocation_count, total_allocated and every      *)
(* existing chunk as they were before the call.                            *)
(***************************************************************************)
C4_FailedAllocKeepsArena ==
    (arenaRet.op # "none" /\ ~arenaRet.ret.ok) => arena = arenaRet.before

C4_Witness ==
    /\ arenaRet.op = "alloc_aligned"
    /\ IsErr(arenaRet.ret, "Allocation failed: out of memory")
    /\ allocation_count(arena) > 0

(***************************************************************************)
(* The arena id component: MaxThreads threads create arenas concurrently   *)
(* and allocate from the arenas they created (an Arena is neither Send nor *)
(* Sync, so it stays with its thread).  Arena::new is two steps of a       *)
(* thread: the atomic fetch_add of next_arena_id, and the construction of  *)
(* the Arena with the id it got.  The counter is a machine word that wraps *)
(* after 2^64 - 1 arenas; the model creates at most MaxArenas.             *)
(***************************************************************************)
InitIds ==
    /\ IdleExcept({"arena"})
    /\ arena = Absent
    /\ arenaRet = NoCall
    /\ arena_id_counter = 1
    /\ threads = [t \in 1..MaxThreads |->
                     [pc |-> "idle", id |-> 0, arenas |-> <<>>]]

\* Arena::new, first step: id: next_arena_id()
NextArenaId ==
    /\ arena_id_counter <= MaxArenas
    /\ \E t \in 1..MaxThreads :
          /\ threads[t].pc = "idle"
          /\ LET Done(r) ==
                     /\ arena_id_counter' = r.counter
                     /\ threads' = [threads EXCEPT ![t].pc = "new",
                                                   ![t].id = r.id]
             IN  Done(next_arena_id(arena_id_counter))
    /\ UNCHANGED <<arena, arenaRet, arenaRest>>

\* Arena::new, second step: the Arena is built around the id.
ArenaCreated ==
    /\ \E t \in 1..MaxThreads :
          /\ threads[t].pc = "new"
          /\ threads' = [threads EXCEPT
                 ![t].pc = "idle",
                 ![t].arenas = Append(@, ArenaNew(threads[t].id))]
    /\ UNCHANGED <<arena, arenaRet, arena_id_counter, arenaRest>>

\* A thread allocates for the first time from one of its arenas: alloc,
\* allocType or allocArray.
ThreadAlloc ==
    /\ \E t \in 1..MaxThreads :
          \E i \in 1..Len(threads[t].arenas), sz \in {1, 4},
             op \in {"alloc", "allocType", "allocArray"} :
             /\ allocation_count(threads[t].arenas[i]) = 0
             /\ LET a == threads[t].arenas[i]
                    Done(r) ==
                        /\ threads' = [threads EXCEPT ![t].arenas[i] = r.arena]
                        /\ arenaRet' = [op |-> op, before |-> a,
                                        size |-> sz, ret |-> r.ret]
                IN  Done(CASE op = "alloc" -> alloc(a, sz, FALSE)
                           [] op = "allocType" ->
                                 alloc_type(a, IF sz = 1 THEN "U8" ELSE "I32",
                                            FALSE)
                           [] op = "allocArray" ->
                                 alloc_array(a, "U8", sz, FALSE))
    /\ UNCHANGED <<arena, arena_id_counter, arenaRest>>

SpecIds == InitIds /\ [][NextArenaId \/ ArenaCreated \/ ThreadAlloc]_vars

\* C28: arena ids are never 0 and no two arenas of the process share one,
\* whatever the order in which the threads run Arena::new (an id a thread
\* has drawn for an arena it has yet to build counts as that arena's);
\* a pointer an arena's allocation returns carries the id of that arena
\* and the requested size as its size hint.
C28_ArenaIds ==
    LET Held == {h \in (1..MaxThreads) \X (0..MaxArenas) :
                    IF h[2] = 0 THEN threads[h[1]].pc = "new"
                    ELSE h[2] <= Len(threads[h[1]].arenas)}
        IdOf(h) == IF h[2] = 0 THEN threads[h[1]].id
                   ELSE threads[h[1]].arenas[h[2]].id
    IN  /\ \A h \in Held : IdOf(h) # 0
        /\ \A g \in Held, h \in Held : g # h => IdOf(g) # IdOf(h)
        /\ (arenaRet.op # "none" /\ arenaRet.ret.ok) =>
              /\ arenaRet.ret.v.arena_id = arenaRet.before.id
              /\ arenaRet.ret.v.arena_id # 0
              /\ arenaRet.ret.v.size_hint = arenaRet.size

C28_Witness ==
    /\ \A t \in 1..MaxThreads : threads[t].pc = "new"
    /\ \E t \in 1..MaxThreads : threads[t].id = 2

C28_WitnessPointer ==
    /\ arenaRet.op = "allocArray"
    /\ arenaRet.ret.ok
    /\ arenaRet.ret.v.arena_id = 2
    /\ arenaRet.ret.v.size_hint = 4

(***************************************************************************)
(* The scratch arena component: a ScratchArena of ScratchCapacity bytes    *)
(* and a caller of alloc, alloc_cstring and reset.  scratchRet keeps the   *)
(* call, its size and align words, used() before the call, and the result. *)
(***************************************************************************)
\* The words used as sizes and alignments, and the strings.
ScratchWords ==
    {IntBytes(0, 8), IntBytes(1, 8), IntBytes(2, 8), IntBytes(3, 8), WordMax}

ScratchStrings == {<<>>, <<104, 105>>, <<84, 111, 111, 32, 108, 111, 110, 103>>}

InitScratch ==
    /\ IdleExcept({"scratch"})
    /\ scratch = ScratchNew(ScratchCapacity)
    /\ scratchRet = NoCall
    /\ overflow_checks \in BOOLEAN

ScratchAlloc ==
    /\ \E size8 \in ScratchWords, align8 \in ScratchWords \ {WordMax} :
          LET Done(r) ==
                  /\ scratch' = r.arena
                  /\ scratchRet' = [op |-> "alloc", size |-> size8,
                                    align |-> align8,
                                    before |-> used(scratch), ret |-> r.ret]
          IN  Done(scratch_alloc(scratch, size8, align8, overflow_checks))
    /\ UNCHANGED <<overflow_checks, scratchRest>>

ScratchAllocCString ==
    /\ \E bytes \in ScratchStrings :
          LET Done(r) ==
                  /\ scratch' = r.arena
                  /\ scratchRet' = [op |-> "alloc_cstring",
                                    size |-> IntBytes(Len(bytes) + 1, 8),
                                    align |-> IntBytes(1, 8),
                                    before |-> used(scratch), ret |-> r.ret,
                                    bytes |-> bytes,
                                    buffer |-> scratch.buffer]
          IN  Done(alloc_cstring(scratch, bytes, overflow_checks))
    /\ UNCHANGED <<overflow_checks, scratchRest>>

ScratchReset ==
    /\ scratch' = scratch_reset(scratch)
    /\ scratchRet' = [op |-> "reset", size |-> Zeros(8), align |-> Zeros(8),
                      before |-> used(scratch), ret |-> NoneRet]
    /\ UNCHANGED <<overflow_checks, scratchRest>>

SpecScratch ==
    InitScratch /\ [][ScratchAlloc \/ ScratchAllocCString \/ ScratchReset]_vars

(***************************************************************************)
(* C5: for a ScratchArena of capacity N and any sequence of alloc and      *)
(* alloc_cstring calls from an empty arena, the first call whose aligned   *)
(* offset plus size exceeds N returns None, every call before it           *)
(* succeeded, and the failed call leaves used() unchanged.  Stated over    *)
(* the last call: it returns None and leaves used() alone when its aligned *)
(* offset plus its size exceeds N, and it succeeds when they do not.       *)
(***************************************************************************)
SmallWord(w) == SubSeq(w, 3, 8) = Zeros(6)

AlignedOffset(off, align8) ==
    LET a == Max(BytesToNat(align8), 1)
    IN  BytesToNat(BitAnd(IntBytes(off + a - 1, 8),
                          BitNot(IntBytes(a - 1, 8))))

ExceedsCapacity(sa, off, size8, align8) ==
    \/ ~SmallWord(size8)
    \/ AlignedOffset(off, align8) + BytesToNat(size8) > capacity(sa)

C5_FirstOverflowExhausted ==
    scratchRet.op \in {"alloc", "alloc_cstring"} =>
        IF ExceedsCapacity(scratch, scratchRet.before, scratchRet.size,
                           scratchRet.align)
        THEN /\ scratchRet.ret.k = "None"
             /\ used(scratch) = scratchRet.before
        ELSE scratchRet.ret.k = "Some"

\* C11: after reset() in any reachable state used() is 0 and the capacity
\* is unchanged, so an allocation of any size up to the full capacity, with
\* any alignment, succeeds again.
C11_ResetRestoresCapacity ==
    /\ capacity(scratch) = ScratchCapacity
    /\ scratchRet.op = "reset" =>
          /\ used(scratch) = 0
          /\ \A n \in 0..capacity(scratch) :
                \A align8 \in ScratchWords :
                    LET r == scratch_alloc(scratch, IntBytes(n, 8), align8,
                                           overflow_checks)
                    IN  /\ r.ret = Some(Zeros(8))
                        /\ used(r.arena) = n

C11_Witness ==
    /\ scratchRet.op = "reset"
    /\ scratchRet.before = ScratchCapacity
    /\ used(scratch) = 0

\* C12: alloc_cstring(bytes) with len the length of bytes: when at least
\* len + 1 bytes are free it returns the region at the old used(), which
\* then holds the bytes followed by one zero byte, advances used() by
\* exactly len + 1 and changes no other byte; when fewer than len + 1 bytes
\* are free it returns None and changes neither used() nor any buffer byte.
C12_AllocCString ==
    scratchRet.op = "alloc_cstring" =>
        LET len == Len(scratchRet.bytes)
            old == scratchRet.before
        IN  IF old + len + 1 <= capacity(scratch)
            THEN /\ scratchRet.ret = Some(IntBytes(old, 8))
                 /\ used(scratch) = old + len + 1
                 /\ Slice(scratch.buffer, old, len + 1)
                        = scratchRet.bytes \o <<0>>
                 /\ \A i \in 1..capacity(scratch) :
                        (i <= old \/ i > old + len + 1)
                            => scratch.buffer[i] = scratchRet.buffer[i]
            ELSE /\ scratchRet.ret = NoneRet
                 /\ used(scratch) = old
                 /\ scratch.buffer = scratchRet.buffer

C12_Witness ==
    /\ scratchRet.op = "alloc_cstring"
    /\ scratchRet.bytes = <<104, 105>>
    /\ scratchRet.before = 1
    /\ scratchRet.ret.k = "Some"
    /\ Slice(scratch.buffer, 1, 3) = <<104, 105, 0>>

C12_WitnessExhausted ==
    /\ scratchRet.op = "alloc_cstring"
    /\ scratchRet.bytes = <<104, 105>>
    /\ scratchRet.before = 2
    /\ scratchRet.ret = NoneRet

\* C21: in every reachable state used() <= capacity(), the buffer has the
\* length it was created with, and the region a call handed out, the size
\* bytes from the returned offset, lies inside the buffer, whatever size and
\* alignment words were requested.
C21_RegionsInsideBuffer ==
    /\ used(scratch) <= capacity(scratch)
    /\ capacity(scratch) = ScratchCapacity
    /\ (scratchRet.op \in {"alloc", "alloc_cstring"}
            /\ scratchRet.ret.k = "Some") =>
          /\ SmallWord(scratchRet.ret.v)
          /\ SmallWord(scratchRet.size)
          /\ BytesToNat(scratchRet.ret.v) + BytesToNat(scratchRet.size)
                <= capacity(scratch)

\* C22: between two resets the cursor only moves forward and a successful
\* allocation returns the region that starts at or after the cursor before
\* the call and ends at the cursor after it, so that it lies above every
\* region returned since the last reset and is disjoint from them; the
\* region starts at a multiple of the requested alignment (of 1 when the
\* alignment requested is 0).
C22_ForwardDisjointAligned ==
    scratchRet.op \in {"alloc", "alloc_cstring"} =>
        /\ used(scratch) >= scratchRet.before
        /\ scratchRet.ret.k = "Some" =>
              /\ SmallWord(scratchRet.ret.v)
              /\ SmallWord(scratchRet.size)
              /\ BytesToNat(scratchRet.ret.v) >= scratchRet.before
              /\ BytesToNat(scratchRet.ret.v) + BytesToNat(scratchRet.size)
                    = used(scratch)
              /\ \E k \in 0..capacity(scratch) :
                    IntBytes(k * Max(BytesToNat(scratchRet.align), 1), 8)
                        = scratchRet.ret.v

(***************************************************************************)
(* The call component: the host calls the functions of a loaded library   *)
(* through lib:call (dynamic_call) and through a SmartBoundFunction        *)
(* (call_with_args), which marshals strings in the thread's scratch arena. *)
(***************************************************************************)
\* The argument lists the host passes to fn: up to MaxArgs values; for a
\* declared NativeString argument a string, a string with an embedded zero
\* byte, nil or an integer, for a declared integer argument an integer or a
\* string, and nil for every argument beyond the declared ones.
ArgLists(fn) ==
    UNION {{args \in [1..n -> {Integer(IntBytes(2, 8)), Integer(IntBytes(3, 8)),
                               String(<<104, 105>>), String(<<104, 0>>),
                               Nil}] :
               \A i \in 1..n :
                   args[i] \in
                       IF i > Len(fn.args) THEN {Nil}
                       ELSE IF fn.args[i] = "CString"
                       THEN {String(<<104, 105>>), String(<<104, 0>>), Nil,
                             Integer(IntBytes(2, 8))}
                       ELSE {Integer(IntBytes(2, 8)), Integer(IntBytes(3, 8)),
                             String(<<104, 105>>)}} :
           n \in 0..MaxArgs}

InitCall ==
    /\ IdleExcept({"scratch", "call"})
    /\ scratch = ScratchNew(ScratchCapacity)
    /\ scratchRet = NoCall
    /\ overflow_checks \in BOOLEAN
    /\ callRet = NoCall

\* What callRet records of a call.
CallRecord(op, fn, args, r) ==
    [op |-> op, fn |-> fn.name, arg_types |-> fn.args, args |-> args,
     ret |-> r.ret, trace |-> r.trace]

\* lib:call(name, retType, argTypes, ...)
LibCall ==
    /\ \E fn \in NativeFns : \E args \in ArgLists(fn) :
          callRet' = CallRecord("call", fn, args,
                                dynamic_call(fn, fn.ret, fn.args, args))
    /\ UNCHANGED <<scratch, overflow_checks, callRest>>

\* lib.Function(...) of a SmartLibrary
SmartCall ==
    /\ \E fn \in NativeFns : \E args \in ArgLists(fn) :
          LET Done(r) ==
                  /\ callRet' = CallRecord("smart", fn, args, r)
                  /\ scratch' = r.arena
          IN  Done(call_with_args(fn, fn.ret, fn.args, args, scratch,
                                  overflow_checks))
    /\ UNCHANGED <<overflow_checks, callRest>>

SpecCall == InitCall /\ [][LibCall \/ SmartCall]_vars

\* C6: a call whose number of host arguments differs from the number of
\* declared argument types fails with the argument-count error and does not
\* invoke the native function; add bound as (I32, I32) -> I32 and called
\* with (2, 3) returns the host integer 5.
C6_ArgCountMismatch ==
    callRet.op # "none" =>
        /\ Len(callRet.args) # Len(callRet.arg_types) =>
              /\ ~callRet.ret.ok
              /\ callRet.ret.msg = "Expected {} arguments, got {}"
              /\ \A i \in 1..Len(callRet.trace) : callRet.trace[i] # "invoke"
        /\ (/\ callRet.fn = "add"
            /\ callRet.args = <<Integer(IntBytes(2, 8)), Integer(IntBytes(3, 8))>>)
              => /\ callRet.ret = Ok(Integer(IntBytes(5, 8)))
                 /\ callRet.trace[1] = "invoke"

C6_Witness ==
    /\ callRet.op = "call"
    /\ callRet.fn = "add"
    /\ callRet.args = <<Integer(IntBytes(2, 8))>>
    /\ ~callRet.ret.ok

\* The scratch bytes the string arguments of a call need together: the
\* length of each string passed as a NativeString or Pointer plus one.
RECURSIVE StringNeed(_, _, _)
StringNeed(args, arg_types, i) ==
    IF i > Len(args) THEN 0
    ELSE (IF args[i].k = "String" /\ arg_types[i] \in {"CString", "Pointer"}
          THEN Len(args[i].v) + 1
          ELSE 0) + StringNeed(args, arg_types, i + 1)

\* C15: scratch exhaustion of a smart-bound call is transient: after any
\* sequence of earlier calls, including calls that failed while marshalling
\* or with exhaustion, a call whose string arguments together need no more
\* than the capacity of the arena does not fail with exhaustion.
C15_ExhaustionTransient ==
    (/\ callRet.op = "smart"
     /\ Len(callRet.args) = Len(callRet.arg_types)
     /\ StringNeed(callRet.args, callRet.arg_types, 1) <= capacity(scratch))
        => \/ callRet.ret.ok
           \/ callRet.ret.msg # "Scratch arena overflow for string argument"

\* C16: every smart-bound call that invokes the native function resets the
\* scratch arena after the native function returned and before the call
\* returns: the call's events are the invocation followed by the reset,
\* used() is 0 afterwards, and the native function saw the strings (len of
\* "hi" is 2).
C16_ResetAfterNativeCall ==
    (callRet.op = "smart"
        /\ \E i \in 1..Len(callRet.trace) : callRet.trace[i] = "invoke")
        => /\ callRet.trace = <<"invoke", "reset">>
           /\ used(scratch) = 0
           /\ callRet.ret.ok
           /\ (callRet.fn = "len" /\ callRet.args = <<String(<<104, 105>>)>>)
                 => callRet.ret.v = call_cif("U64", IntBytes(2, 8), scratch)
           /\ (callRet.fn = "cmp" /\ callRet.args = <<String(<<104, 105>>), Nil>>)
                 => callRet.ret.v = Integer(IntBytes(1, 8))

C16_Witness ==
    /\ callRet.op = "smart"
    /\ callRet.fn = "len"
    /\ callRet.args = <<String(<<104, 105>>)>>
    /\ callRet.trace = <<"invoke", "reset">>
    /\ used(scratch) = 0

\* C17: in a dynamic call the native function is invoked exactly once and
\* only after every argument was marshalled; when the argument count is
\* wrong or the conversion of an argument fails it is invoked zero times
\* and the call returns the error.
C17_InvokedOnce ==
    callRet.op # "none" =>
        LET invocations ==
                Cardinality({i \in 1..Len(callRet.trace) :
                                callRet.trace[i] = "invoke"})
            n == Len(callRet.args)
        IN  /\ invocations = (IF callRet.ret.ok THEN 1 ELSE 0)
            /\ callRet.op = "call" =>
                  (callRet.ret.ok <=>
                      /\ n = Len(callRet.arg_types)
                      /\ \A i \in 1..n :
                            lua_to_arg(callRet.args[i],
                                       callRet.arg_types[i]).ok)

C17_Witness ==
    /\ callRet.op = "call"
    /\ callRet.fn = "cmp"
    /\ callRet.args = <<String(<<104, 105>>), Nil>>
    /\ ~callRet.ret.ok
    /\ callRet.trace = <<>>

C17_WitnessInvoked ==
    /\ callRet.op = "call"
    /\ callRet.fn = "cmp"
    /\ callRet.args = <<String(<<104, 105>>), String(<<104, 105>>)>>
    /\ callRet.ret = Ok(Integer(Zeros(8)))
    /\ callRet.trace = <<"invoke">>

\* C24: a call whose arguments match the signature in number, with a host
\* string holding a zero byte for a NativeString argument and strings
\* without one for the others, fails with the invalid-C-string error and
\* does not invoke the native function, through lib:call and through a
\* SmartBoundFunction alike (where the strings may instead exhaust the
\* scratch arena, which is a failure without invocation as well).
C24_EmbeddedZeroRejected ==
    (/\ callRet.op \in {"call", "smart"}
     /\ Len(callRet.args) = Len(callRet.arg_types)
     /\ \A i \in 1..Len(callRet.args) :
           /\ callRet.arg_types[i] = "CString"
           /\ callRet.args[i] \in {String(<<104, 0>>), String(<<104, 105>>)}
     /\ \E i \in 1..Len(callRet.args) : callRet.args[i] = String(<<104, 0>>))
        => /\ callRet.ret \in
                 {Err("String contains null byte"),
                  Err("Scratch arena overflow for string argument")}
           /\ callRet.op = "call" =>
                 callRet.ret = Err("String contains null byte")
           /\ callRet.trace = <<>>

(***************************************************************************)
(* The callback component: the host creates callbacks with ffi.callback,  *)
(* native code calls their code pointers, and the collector drops them.   *)
(***************************************************************************)
InitCallback ==
    /\ IdleExcept({"callback"})
    /\ cbs = <<>>
    /\ frees = <<>>
    /\ cbRet = NoCall

\* ffi.callback(fn, retType, argTypes)
CallbackNew ==
    /\ Len(frees) < MaxCallbacks
    /\ \E sig \in
              {[func |-> "double", ret |-> "F64", args |-> <<"F64">>],
               [func |-> "double", ret |-> "I32", args |-> <<"I32">>],
               [func |-> "error", ret |-> "F64", args |-> <<"F64">>],
               [func |-> "none", ret |-> "F64", args |-> <<"F64">>],
               [func |-> "none", ret |-> "Void", args |-> <<>>],
               [func |-> "double", ret |-> "I32",
                args |-> [i \in 1..17 |-> "I32"]]},
          env \in [cif_ok : BOOLEAN, alloc_ok : BOOLEAN, prep_ok : BOOLEAN] :
          LET r == FfiCallbackNew(sig.func, sig.ret, sig.args, env, frees)
          IN  /\ cbs' = IF r.ret.ok THEN Append(cbs, r.ret.v) ELSE cbs
              /\ frees' = r.frees
              /\ cbRet' = [op |-> "new", ok |-> r.ret.ok,
                           closure |-> r.closure]
    /\ UNCHANGED callbackRest

\* The collector drops a binding the host no longer refers to.
CallbackDrop ==
    /\ \E i \in 1..Len(cbs) :
          /\ cbs[i].alive
          /\ cbs' = [cbs EXCEPT ![i].alive = FALSE]
          /\ frees' = drop(cbs[i], frees)
          /\ cbRet' = [op |-> "drop", ok |-> TRUE, closure |-> cbs[i].closure]
    /\ UNCHANGED callbackRest

\* Native code calls the code pointer of a live binding; the return slot
\* holds whatever the native caller left in it.
CallbackInvoke ==
    /\ \E i \in 1..Len(cbs), registry_ok \in BOOLEAN,
          slot \in {Zeros(8), [j \in 1..8 |-> 170]} :
          /\ cbs[i].alive
          /\ \E args \in [1..Len(cbs[i].arg_types) ->
                            {<<0, 0, 0, 0, 0, 0, 53, 64>>,
                             <<0, 0, 0, 0, 0, 0, 244, 63>>, <<7, 0, 0, 0>>}] :
                /\ \A j \in 1..Len(args) :
                      Len(args[j]) = width(cbs[i].arg_types[j])
                /\ LET Done(r) ==
                           cbRet' = [op |-> "invoke", ok |-> r.trace = <<>>,
                                     closure |-> cbs[i].closure,
                                     data |-> cbs[i], args |-> args,
                                     registry_ok |-> registry_ok,
                                     before |-> slot, slot |-> r.slot,
                                     trace |-> r.trace]
                   IN  Done(callback_trampoline(cbs[i], args, registry_ok,
                                                slot))
    /\ UNCHANGED <<cbs, frees, callbackRest>>

SpecCallback ==
    InitCallback /\ [][CallbackNew \/ CallbackDrop \/ CallbackInvoke]_vars

(***************************************************************************)
(* The wide-signature component: the host calls functions of the loaded    *)
(* library that take ArgCap - 1, ArgCap and ArgCap + 1 int arguments       *)
(* through lib:call, and creates callbacks of as many argument types.      *)
(***************************************************************************)
\* The argument count above which FfiCallback::new refuses a signature.
ArgCap == 16

\* int sum(int, ..., int) of n parameters: the sum of its arguments.
WideFn(n) == [name |-> "sum", ret |-> "I32", args |-> [i \in 1..n |-> "I32"]]

InitWide ==
    /\ IdleExcept({"call", "callback"})
    /\ callRet = NoCall
    /\ cbs = <<>>
    /\ frees = <<>>
    /\ cbRet = NoCall

\* lib:call(name, "i32", {"i32", ...}, first, 1, ..., 1, last) with as
\* many arguments as the signature declares, or one fewer.
WideCall ==
    /\ \E n \in (ArgCap - 1)..(ArgCap + 1), m \in {0, 1},
          first \in {Integer(IntBytes(2, 8)), String(<<104, 105>>)},
          last \in {Integer(IntBytes(2, 8)), Integer(IntBytes(3, 8))} :
          LET args == [i \in 1..(n - m) |->
                          IF i = 1 THEN first
                          ELSE IF i = n THEN last
                          ELSE Integer(IntBytes(1, 8))]
          IN  callRet' = CallRecord("call", WideFn(n), args,
                                    dynamic_call(WideFn(n), "I32",
                                                 WideFn(n).args, args))
    /\ UNCHANGED <<cbVars, layoutVars, memVars, ptrVars, arenaVars,
                   scratchVars, bufVars, viewVars, smartVars>>

\* ffi.callback(fn, "i32", {"i32", ...})
WideCallback ==
    /\ Len(frees) < MaxCallbacks
    /\ \E n \in (ArgCap - 1)..(ArgCap + 1),
          env \in [cif_ok : BOOLEAN, alloc_ok : BOOLEAN, prep_ok : BOOLEAN] :
          LET Done(r) ==
                  /\ cbs' = IF r.ret.ok THEN Append(cbs, r.ret.v) ELSE cbs
                  /\ frees' = r.frees
                  /\ cbRet' = [op |-> "new", ok |-> r.ret.ok,
                               closure |-> r.closure, arg_count |-> n,
                               ret |-> IF r.ret.ok THEN Ok(Nil) ELSE r.ret]
          IN  Done(FfiCallbackNew("none", "I32", WideFn(n).args, env, frees))
    /\ UNCHANGED callbackRest

SpecWide == InitWide /\ [][WideCall \/ WideCallback \/ CallbackDrop]_vars

\* C23: a call through a signature of more than 16 argument types fails
\* with an unsupported-signature error and does not invoke the native
\* function; ffi.callback fails with that error for more than 16 argument
\* types, and for 16 or fewer it does not fail because of the count.
C23_ArgumentCap ==
    /\ (callRet.op = "call" /\ Len(callRet.arg_types) > ArgCap) =>
          /\ ~callRet.ret.ok
          /\ callRet.trace = <<>>
    /\ cbRet.op = "new" =>
          IF cbRet.arg_count > ArgCap
          THEN cbRet.ret = Err("Callbacks with >16 args not supported")
          ELSE cbRet.ret # Err("Callbacks with >16 args not supported")

\* C7: a callback of signature (F64) -> F64 over the host function that
\* doubles its input, called through its code pointer with 21.0, leaves
\* 42.0 in the native return slot.
C7_DoubleLeaves42 ==
    (/\ cbRet.op = "invoke"
     /\ cbRet.data.func = "double"
     /\ cbRet.data.ret_type = "F64"
     /\ cbRet.data.arg_types = <<"F64">>
     /\ cbRet.args = <<<<0, 0, 0, 0, 0, 0, 53, 64>>>>
     /\ cbRet.trace = <<>>)
        => cbRet.slot = <<0, 0, 0, 0, 0, 0, 69, 64>>

\* C25: when the retained host function cannot be retrieved, or the host
\* function raises an error, the trampoline leaves the native return slot
\* as the caller prepared it and writes one line to the error stream; it
\* writes no line when the host function returns.
C25_TrampolineFailure ==
    cbRet.op = "invoke" =>
        IF ~cbRet.registry_ok
        THEN /\ cbRet.slot = cbRet.before
             /\ cbRet.trace = <<"Failed to get Lua function">>
        ELSE IF cbRet.data.func = "error"
        THEN /\ cbRet.slot = cbRet.before
             /\ cbRet.trace = <<"Lua function error">>
        ELSE cbRet.trace = <<>>

C25_Witness ==
    /\ cbRet.op = "invoke"
    /\ cbRet.registry_ok
    /\ cbRet.data.func = "error"
    /\ cbRet.before = [j \in 1..8 |-> 170]
    /\ cbRet.slot = cbRet.before
    /\ cbRet.trace # <<>>

C25_WitnessRegistry ==
    /\ cbRet.op = "invoke"
    /\ ~cbRet.registry_ok
    /\ cbRet.data.func = "double"
    /\ cbRet.before = [j \in 1..8 |-> 170]
    /\ cbRet.slot = cbRet.before
    /\ cbRet.trace # <<>>

\* C9: every native closure allocated by callback creation is freed exactly
\* once: a closure that no live binding owns (its creation failed after the
\* allocation, or its binding was dropped) has been freed once, and the
\* closure of a live binding has not been freed.
C9_ClosureFreedOnce ==
    \A c \in 1..Len(frees) :
        IF \E i \in 1..Len(cbs) : cbs[i].closure = c /\ cbs[i].alive
        THEN frees[c] = 0
        ELSE frees[c] = 1

C9_Witness ==
    /\ cbRet.op = "new"
    /\ ~cbRet.ok
    /\ cbRet.closure = 2
    /\ frees = <<1, 1>>
    /\ Len(cbs) = 1
    /\ ~cbs[1].alive

(***************************************************************************)
(* The buffer component: the host writes and reads typed values in a       *)
(* Buffer made by ffi.buffer(BufLen).                                      *)
(***************************************************************************)
InitBuffer ==
    /\ IdleExcept({"buffer"})
    /\ buf \in {Zeros(BufLen \div 2), Zeros(BufLen)}
    /\ bufRet = NoCall

\* buffer:write(0, ctype, value)
BufWrite ==
    /\ \E ctype \in CType,
          value \in {Boolean(TRUE), Integer(IntBytes(7, 8)),
                     Number(<<0, 0, 0, 0, 0, 0, 4, 64>>),
                     LightUserData(IntBytes(16, 8)), LightUserData(NullPtr),
                     String(<<104, 105>>)} :
          LET r == BufferWrite(buf, Zeros(8), ctype, value, overflow_checks)
          IN  /\ buf' = IF r.ok THEN r.v ELSE buf
              /\ bufRet' = [op |-> "write", ctype |-> ctype,
                            value |-> value, ok |-> r.ok]
    /\ UNCHANGED bufferRest

\* buffer:read(0, ctype)
BufRead ==
    /\ \E ctype \in CType :
          \E r \in BufferRead(buf, Zeros(8), ctype, overflow_checks) :
              bufRet' = [op |-> "read", ctype |-> ctype,
                         value |-> IF r.ok THEN r.v ELSE Nil, ok |-> r.ok]
    /\ UNCHANGED <<buf, bufferRest>>

SpecBuffer == InitBuffer /\ [][BufWrite \/ BufRead]_vars

\* The host number a LuaValue stands for (the host has one number type).
ToNumber(value) ==
    IF value.k = "Integer" THEN I64ToF64(value.v) ELSE value.v

\* The host values representable in a tag: booleans, the integers of the
\* tag's range, the numbers the tag holds exactly, addresses, and host
\* strings for NativeString.
Representable(ctype, value) ==
    CASE ctype = "Bool" -> value.k = "Boolean"
      [] ctype \in {"I8", "I16", "I32", "I64"} ->
            /\ value.k = "Integer"
            /\ SignExtend(Truncate(value.v, size(ctype)), 8) = value.v
      [] ctype \in {"U8", "U16", "U32"} ->
            /\ value.k = "Integer"
            /\ ZeroExtend(Truncate(value.v, size(ctype)), 8) = value.v
      [] ctype = "U64" ->
            /\ value.k \in {"Integer", "Number"}
            /\ U64ToF64(F64ToU64(ToNumber(value))) = ToNumber(value)
      [] ctype = "F32" ->
            /\ value.k \in {"Integer", "Number"}
            /\ F32ToF64(F64ToF32(ToNumber(value))) = ToNumber(value)
      [] ctype = "F64" -> value.k \in {"Integer", "Number"}
      [] ctype = "Pointer" -> value.k = "LightUserData"
      [] ctype = "CString" -> value.k = "String"
      [] ctype = "Void" -> FALSE

\* Equality of host values: numbers by value, everything else as it is.
HostEq(a, b) ==
    IF a.k \in {"Integer", "Number"} /\ b.k \in {"Integer", "Number"}
    THEN ToNumber(a) = ToNumber(b)
    ELSE a = b

\* C8: for every tag except void and every value representable in the tag,
\* writing the value at offset 0 of a buffer and reading offset 0 with the
\* same tag returns the value: the write succeeds and, in the state after
\* it, the read returns the value written.
C8_RoundTrip ==
    (/\ bufRet.op = "write"
     /\ size(bufRet.ctype) <= Len(buf)
     /\ Representable(bufRet.ctype, bufRet.value))
        => /\ bufRet.ok
           /\ \A r \in BufferRead(buf, Zeros(8), bufRet.ctype, FALSE) :
                 r.ok /\ HostEq(r.v, bufRet.value)

(***************************************************************************)
(* The view component: the host lays the example struct over a zeroed     *)
(* arena allocation of the struct's size and reads and writes its fields. *)
(***************************************************************************)
InitView ==
    /\ IdleExcept({"layout", "mem", "pointer", "view"})
    /\ schema = ExampleSchema
    /\ def = from_schema(ExampleSchema)
    /\ layoutErr = FALSE
    /\ mem = Zeros(def.size)
    /\ wild = FALSE
    /\ rp = managed(RegionBase, 1, def.size)
    /\ tp = Absent
    /\ ptrRet = NoCall
    /\ view = Absent
    /\ viewRet = NoCall

\* ffi.view(ptr, structDef)
ViewNew ==
    /\ view' = StructViewNew(rp, def)
    /\ viewRet' = [op |-> "view"]
    /\ UNCHANGED <<memVars, ptrVars, viewRest>>

\* view.name = value
WriteField ==
    /\ view # Absent
    /\ \E name \in {"a", "b", "c", "zz"},
          value \in {Integer(IntBytes(7, 8)), Integer(IntBytes(9, 8)),
                     Integer(IntBytes(11, 8)), Integer(WordMax),
                     String(<<120>>)} :
          LET Done(r) ==
                  /\ mem' = r.mem
                  /\ wild' = (wild \/ r.wild)
                  /\ viewRet' = [op |-> "write", name |-> name,
                                 value |-> value, before |-> mem,
                                 ok |-> r.ret.ok]
          IN  Done(write_field(view, mem, name, value))
    /\ UNCHANGED <<view, ptrVars, viewRest>>

\* view.name
ReadField ==
    /\ view # Absent
    /\ \E name \in {"a", "b", "c", "zz"} :
          \E r \in read_field(view, mem, name) :
              /\ viewRet' = [op |-> "read", name |-> name,
                             value |-> IF "v" \in DOMAIN r THEN r.v ELSE Nil,
                             before |-> mem, ok |-> r.ok]
              /\ wild' = (wild \/ "wild" \in DOMAIN r)
    /\ UNCHANGED <<view, mem, ptrVars, viewRest>>

SpecView == InitView /\ [][ViewNew \/ WriteField \/ ReadField]_vars

\* C10: write_field(name, v) changes only the bytes [offset, offset +
\* size(tag)) of the named field, a failed write changes nothing, and the
\* value written is the value read_field returns; so under the layout
\* [(a, U32), (b, U8), (c, U32)] the padding bytes 5..7 of the zeroed region
\* stay zero and a = 7, b = 9, c = 11 are read back as written.
C10_WriteFieldFrame ==
    /\ ~wild
    /\ mem # <<>> => Slice(mem, 5, 3) = Zeros(3)
    /\ viewRet.op = "write" =>
          IF viewRet.ok
          THEN LET field == get_field(def, viewRet.name).v
               IN  /\ \A i \in 1..Len(mem) :
                         (i <= field.offset \/ i > field.offset + field.size)
                            => mem[i] = viewRet.before[i]
                   /\ Representable(field.ctype, viewRet.value) =>
                         read_field(view, mem, viewRet.name)
                            = {Ok(viewRet.value)}
          ELSE mem = viewRet.before
    /\ viewRet.op = "read" /\ mem = <<7, 0, 0, 0, 9, 0, 0, 0, 11, 0, 0, 0>> =>
          viewRet.value \in {Nil, Integer(IntBytes(7, 8)),
                             Integer(IntBytes(9, 8)), Integer(IntBytes(11, 8))}

C10_Witness ==
    /\ viewRet.op = "read"
    /\ viewRet.name = "c"
    /\ viewRet.value = Integer(IntBytes(11, 8))
    /\ mem = <<7, 0, 0, 0, 9, 0, 0, 0, 11, 0, 0, 0>>

(***************************************************************************)
(* The buffer component with offsets: reads and writes of a buffer at the  *)
(* offsets 0, length - 1, length and the two largest words whose sum with  *)
(* a size overflows, in a build with or without overflow checks.  bufRet   *)
(* keeps the call, the buffer before it and the result.                    *)
(***************************************************************************)
InitBufferAt ==
    /\ IdleExcept({"buffer", "scratch"})
    /\ scratch = Absent
    /\ scratchRet = NoCall
    /\ overflow_checks \in BOOLEAN
    /\ buf \in {Zeros(BufLen \div 2), Zeros(BufLen)}
    /\ bufRet = NoCall

\* buffer:write(offset, ctype, value)
BufWriteAt ==
    /\ \E offset8 \in {Zeros(8), IntBytes(Len(buf) - 1, 8),
                        IntBytes(Len(buf), 8), IntBytes(0 - 4, 8), WordMax},
          ctype \in {"U8", "I32", "Void"},
          value \in {Integer(IntBytes(7, 8)), String(<<120>>)} :
          LET Done(r) ==
                  /\ buf' = IF r.ok THEN r.v ELSE buf
                  /\ bufRet' = [op |-> "write", offset |-> offset8,
                                ctype |-> ctype, value |-> value,
                                before |-> buf, ok |-> r.ok,
                                wild |-> "wild" \in DOMAIN r]
          IN  Done(BufferWrite(buf, offset8, ctype, value, overflow_checks))
    /\ UNCHANGED bufferRest

\* buffer:read(offset, ctype)
BufReadAt ==
    /\ \E offset8 \in {Zeros(8), IntBytes(Len(buf) - 1, 8),
                        IntBytes(Len(buf), 8), IntBytes(0 - 4, 8), WordMax},
          ctype \in {"U8", "I32", "Void"} :
          \E r \in BufferRead(buf, offset8, ctype, overflow_checks) :
              bufRet' = [op |-> "read", offset |-> offset8, ctype |-> ctype,
                         value |-> IF "v" \in DOMAIN r THEN r.v ELSE Nil,
                         before |-> buf, ok |-> r.ok,
                         wild |-> "wild" \in DOMAIN r]
    /\ UNCHANGED <<buf, bufferRest>>

SpecBufferAt == InitBufferAt /\ [][BufWriteAt \/ BufReadAt]_vars

\* C20: Buffer read and write at offset o with tag t succeed only if
\* o + size(t) <= length, for every o in the machine-word range, offsets so
\* large that o + size(t) overflows the word included; a read or write that
\* fails leaves every byte of the buffer unchanged.
C20_BufferBounds ==
    bufRet.op \in {"read", "write"} =>
        /\ bufRet.ok =>
              /\ SmallWord(bufRet.offset)
              /\ BytesToNat(bufRet.offset) + SizeOf[bufRet.ctype] <= Len(buf)
        /\ ~bufRet.ok => buf = bufRet.before

(***************************************************************************)
(* The same component over any pointer the host may pass to ffi.view: the  *)
(* pointer of an allocation of the struct's size, the pointer of an        *)
(* allocation of RegionSize bytes, which the struct does not fit, or       *)
(* ffi.ptr(0).                                                             *)
(***************************************************************************)
InitViewAny ==
    /\ IdleExcept({"layout", "mem", "pointer", "view"})
    /\ schema = ExampleSchema
    /\ def = from_schema(ExampleSchema)
    /\ layoutErr = FALSE
    /\ rp \in {managed(RegionBase, 1, def.size),
               managed(RegionBase, 1, RegionSize), managed(0, 0, 0)}
    /\ mem = Zeros(rp.size_hint)
    /\ wild = FALSE
    /\ tp = Absent
    /\ ptrRet = NoCall
    /\ view = Absent
    /\ viewRet = NoCall

SpecViewAny == InitViewAny /\ [][ViewNew \/ WriteField \/ ReadField]_vars

\* C19: read_field and write_field fail with the unknown-field error for a
\* name absent from the layout and leave memory unchanged, and they
\* propagate the pointer-level checks: through a view whose base address is
\* null they fail (null dereference), and for a field that ends beyond the
\* size hint of the pointer the view was made from they fail (out of
\* bounds).
C19_ViewChecks ==
    viewRet.op \in {"read", "write"} =>
        LET field == get_field(def, viewRet.name)
        IN  IF ~field.some
            THEN ~viewRet.ok /\ mem = viewRet.before
            ELSE /\ view.ptr = 0 => ~viewRet.ok
                 /\ (rp.size_hint > 0
                        /\ field.v.offset + field.v.size > rp.size_hint)
                       => ~viewRet.ok

(***************************************************************************)
(* The smart library component: the host binds an interface to a loaded    *)
(* library whose exports are the names of NativeFns, looks members up on  *)
(* the handle, and calls the bound functions it got.                       *)
(***************************************************************************)
\* The entries an interface table is made of: two functions the library
\* exports, one it does not, and two constants.
InterfaceEntries ==
    [n \in {"add", "len", "nope", "MB_OK", "path"} |->
        CASE n = "add" -> Signature("I32", <<"I32", "I32">>)
          [] n = "len" -> Signature("U64", <<"CString">>)
          [] n = "nope" -> Signature("Void", <<>>)
          [] n = "MB_OK" -> Integer(Zeros(8))
          [] n = "path" -> Integer(IntBytes(5, 8))]

InitSmart ==
    /\ IdleExcept({"scratch", "smart"})
    /\ scratch = ScratchNew(ScratchCapacity)
    /\ scratchRet = NoCall
    /\ overflow_checks \in BOOLEAN
    /\ lib = Absent
    /\ libRet = NoCall

\* The host binds an interface: from_interface on a table of some of the
\* entries.
BindInterface ==
    /\ lib = Absent
    /\ \E names \in SUBSET DOMAIN InterfaceEntries :
          LET interface == [n \in names |-> InterfaceEntries[n]]
              Done(r) ==
                  /\ lib' = IF r.ok THEN r.v ELSE [kind |-> "Err"]
                  /\ libRet' = [op |-> "bind", interface |-> interface,
                                ret |-> IF r.ok THEN Ok(Nil) ELSE r]
          IN  Done(from_interface({fn.name : fn \in NativeFns}, <<108>>,
                                  interface))
    /\ UNCHANGED <<scratchVars, layoutVars, memVars, ptrVars, arenaVars,
                   callRet, cbVars, bufVars, viewVars>>

\* lib.key
Lookup ==
    /\ lib.kind = "SmartLibrary"
    /\ \E key \in DOMAIN InterfaceEntries \cup {"close", "other"} :
          /\ key \in DOMAIN lib.cifs => lib.cifs[key] <= MaxLookups
          /\ LET Done(r) ==
                     /\ lib' = r.lib
                     /\ libRet' = [op |-> "index", key |-> key, ret |-> r.ret]
             IN  Done(MemberLookup(lib, key))
    /\ UNCHANGED <<scratchVars, layoutVars, memVars, ptrVars, arenaVars,
                   callRet, cbVars, bufVars, viewVars>>

\* f(...) on the bound function f the last lookup or call left in the
\* host's hands: add(2, 3) and len("hi").
Invoke ==
    /\ libRet.op \in {"index", "call"}
    /\ libRet.ret.k = "SmartBoundFunction"
    /\ LET f == libRet.ret
           fn == CHOOSE x \in NativeFns : x.name = f.fn_ptr
           args == IF f.fn_ptr = "add"
                   THEN <<Integer(IntBytes(2, 8)), Integer(IntBytes(3, 8))>>
                   ELSE <<String(<<104, 105>>)>>
           Done(r) ==
               /\ scratch' = r.arena
               /\ libRet' = [op |-> "call", key |-> f.fn_ptr, ret |-> f,
                             result |-> r.ret]
       IN  Done(call_with_args(fn, f.ret_type, f.arg_types, args, scratch,
                               overflow_checks))
    /\ UNCHANGED <<lib, scratchRet, overflow_checks, layoutVars, memVars,
                   ptrVars, arenaVars, callRet, cbVars, bufVars, viewVars>>

SpecSmart == InitSmart /\ [][BindInterface \/ Lookup \/ Invoke]_vars

\* C26: the call interface of a function of a smart-bound library is built
\* once, when the interface is bound: member lookups and invocations leave
\* the number of call interfaces built for each function at 1.
C26_InterfaceBuiltOnce ==
    lib.kind = "SmartLibrary" =>
        \A n \in DOMAIN lib.functions : lib.cifs[n] = 1

\* C27: binding an interface fails with the symbol-not-found error, and
\* produces no handle, exactly when it names a function the library does
\* not export; on a handle, lib.key is the stored constant for the name of
\* a constant, the bound function for the name of a function, and nil for
\* any other name.
C27_BindAndLookup ==
    /\ libRet.op = "bind" =>
          IF \E n \in DOMAIN libRet.interface :
                /\ libRet.interface[n].k = "Table"
                /\ n \notin {fn.name : fn \in NativeFns}
          THEN /\ libRet.ret = Err("Symbol '{}' not found: {}")
               /\ lib.kind # "SmartLibrary"
          ELSE /\ libRet.ret.ok
               /\ lib.kind = "SmartLibrary"
    /\ libRet.op = "index" =>
          libRet.ret =
              CASE libRet.key \in DOMAIN lib.constants ->
                      lib.constants[libRet.key]
                [] libRet.key \in DOMAIN lib.functions ->
                      lib.functions[libRet.key]
                [] OTHER -> Nil
====
